---- MODULE Spec2Model ----
(***************************************************************************)
(* ernst: a two-local Ising Hamiltonian with incremental energy, the       *)
(* exact Gray-code ground-state enumerator, the simulated-annealing        *)
(* sampler and the SpinNetwork gate builder.                               *)
(*                                                                         *)
(* Energies are f32 in the source.  Here an energy is an integer number of *)
(* units of 1/(3*2^25): every coefficient the model draws is a multiple of *)
(* 1/2, of 1/3 or of 2^-25, and on problems whose coefficients are all     *)
(* multiples of 1/2 (or all multiples of 2^-25) every f32 sum the code     *)
(* computes is exact, so the integer is the f32 value.  The f32 rounding   *)
(* of 1/3 in the ternary OR pattern is not modelled.                       *)
(*                                                                         *)
(* Vec<T> is a sequence; the source's 0-based index k is position k+1.     *)
(***************************************************************************)
EXTENDS Integers, Sequences, FiniteSets, TLC

VARIABLES
    pc,                       \* control point of the running operation
    interactions,             \* &Interactions argument of the solver / Hamiltonian
    external_magnetic_field,  \* &ExternalMagneticField argument
    initial_state_arg,        \* initial_state: Option<State> argument of the Hamiltonian
    two_local_hamiltonian,    \* the TwoLocalHamiltonian instance (hamiltonian.rs:4-10)
    i,                        \* loop counter of find_all_ground_states
    lowest_energy,            \* find_all_ground_states local
    ground_states,            \* find_all_ground_states local: Vec<(Energy, CompactState)>
    output,                   \* the returned vector
    spin_network,             \* the SpinNetwork builder (spin_network.rs:23-29)
    program,                  \* the caller's calls: builder calls to make, or the last calls made
    returned,                 \* spin indices the builder calls returned so far
    configuration_override,   \* Option<&SimulatedAnnealingConfiguration> argument
    anneal,                   \* locals of one simulated_annealing run
    anneal_twin               \* the same call in a second process (other hash keys)

vars == <<pc, interactions, external_magnetic_field, initial_state_arg,
          two_local_hamiltonian, i,
          lowest_energy, ground_states, output, spin_network, program,
          returned, configuration_override, anneal, anneal_twin>>

\* Option<T>: None is the empty sequence, Some(x) the sequence of x alone
None == <<>>
Some(x) == <<x>>

(***************************************************************************)
(* Bounds of the model.                                                    *)
(***************************************************************************)
MaxSpins == 3          \* generic problems have 2..MaxSpins spins
MaxInteractions == 2   \* and at most this many interaction triples
MaxSweeps == 4         \* configured sweeps of an annealing run
MaxNodes == 5          \* spins of a freely built SpinNetwork
MaxFrames == 3        \* calls in flight the stack has room for
MaxDim == 5           \* spins of the Hamiltonians whose index map is checked

(***************************************************************************)
(* Energy scalar (types.rs:5) and f32::EPSILON = 2^-23.                    *)
(***************************************************************************)
Unit == 3 * (2 ^ 25)
Half == Unit \div 2
Third == Unit \div 3
Tiny == Unit \div (2 ^ 25)
EPSILON == Unit \div (2 ^ 23)

Abs(x) == IF x < 0 THEN -x ELSE x
Min(a, b) == IF a < b THEN a ELSE b
Max(a, b) == IF a < b THEN b ELSE a

At(v, k) == v[k + 1]
SpinValue(b) == IF b THEN 1 ELSE -1

RECURSIVE SumSeq(_)
SumSeq(s) == IF s = <<>> THEN 0 ELSE s[1] + SumSeq(Tail(s))

(***************************************************************************)
(* FenwickTree<Energy> (ftree crate), as the array of its point values:    *)
(* from_iter, add_at and prefix_sum(len, 0.0), which is all the source     *)
(* calls.  With exact sums the tree layout is not observable.              *)
(***************************************************************************)
FenwickFromIter(values) == values

FenwickAddAt(tree, index, diff) ==
    IF index < Len(tree) THEN [tree EXCEPT ![index + 1] = @ + diff] ELSE tree

FenwickPrefixSum(tree, k, init) == init + SumSeq(SubSeq(tree, 1, k))

(***************************************************************************)
(* TwoLocalHamiltonian (hamiltonian.rs)                                    *)
(***************************************************************************)
\* mutant: rows of n - i entries
map_interaction_to_index_long_rows(a, b, n) == ((a * (2 * n - a)) \div 2) + (b - a - 1)

map_interaction_to_index(a, b, n) == ((a * (2 * n - a - 1)) \div 2) + (b - a - 1)

\* CompactState = FixedBitSet (types.rs:15): a length and the set of set bits
CompactStateWithCapacity(n) == [len |-> n, ones |-> {}]

Contains(bits, k) == k \in bits.ones

Toggle(bits, k) ==
    [bits EXCEPT !.ones = IF k \in @ THEN @ \ {k} ELSE @ \cup {k}]

\* State = Vec<bool> (types.rs:14)
AllFalse(n) == [k \in 1..n |-> FALSE]

RECURSIVE MaxIndex(_)
MaxIndex(ints) ==
    IF ints = <<>> THEN -1
    ELSE Max(Max(ints[1][1], ints[1][2]), MaxIndex(Tail(ints)))

\* the loop of hamiltonian.rs:37-41
RECURSIVE ToggleInitial(_, _, _)
ToggleInitial(bits, initial_spins, k) ==
    IF k >= Len(initial_spins) THEN bits
    ELSE ToggleInitial(IF At(initial_spins, k) THEN Toggle(bits, k) ELSE bits,
                       initial_spins, k + 1)

Panic == [panic |-> TRUE]

\* the loop of hamiltonian.rs:58-65: later triples overwrite earlier ones.
\* For a triple (i, i, J) the usize subtraction j - i - 1 of
\* map_interaction_to_index goes below zero: a build with overflow checks
\* panics there; a build without them wraps, twice when the first term is
\* positive, which gives the slot before the row's first, and once when it is
\* 0, which gives usize::MAX and a panic at the indexing.
RECURSIVE Linearize(_, _, _, _, _)
Linearize(lin, ints, bits, n, overflow_checks) ==
    IF ints = <<>> THEN [panic |-> FALSE, lin |-> lin]
    ELSE LET a == ints[1][1]
             b == ints[1][2]
             interaction_strength == ints[1][3]
             smaller == Min(a, b)
             greater == Max(a, b)
             index == map_interaction_to_index(smaller, greater, n)
             i_spin_value == SpinValue(Contains(bits, a))
             j_spin_value == SpinValue(Contains(bits, b))
         IN  IF greater - smaller - 1 < 0 /\ overflow_checks THEN Panic
             ELSE IF index < 0 \/ index >= Len(lin) THEN Panic
             ELSE Linearize([lin EXCEPT ![index + 1] =
                                 interaction_strength * i_spin_value * j_spin_value],
                            Tail(ints), bits, n, overflow_checks)

\* mutant: a field longer than the inferred n is let through
TwoLocalHamiltonian_new_longer_field(ints, field, initial_state, overflow_checks) ==
    IF ints = <<>> THEN Panic
    ELSE LET n == MaxIndex(ints) + 1 IN
    IF Len(field) < n THEN Panic
    ELSE LET bits == CompactStateWithCapacity(n)
             magnetic_field_strength_values == [k \in 1..n |-> -field[k]]
             total_interactions == (n * (n - 1)) \div 2
             linearized == Linearize([k \in 1..total_interactions |-> 0], ints, bits, n,
                                     overflow_checks)
         IN  IF linearized.panic THEN Panic ELSE
             [panic |-> FALSE,
              spins |-> bits,
              linearized_interactions |-> linearized.lin,
              external_magnetic_field |-> field,
              interaction_energy |-> FenwickFromIter(linearized.lin),
              magnetic_field_energy |-> FenwickFromIter(magnetic_field_strength_values)]

\* overflow_checks: whether the build panics on integer overflow
TwoLocalHamiltonian_new(ints, field, initial_state, overflow_checks) ==
    IF ints = <<>> THEN Panic                      \* .max().unwrap() on None
    ELSE LET n == MaxIndex(ints) + 1 IN
    IF Len(field) # n THEN Panic                   \* assert_eq!(field.len(), n)
    ELSE IF initial_state # None /\ Len(initial_state[1]) # n THEN Panic
    ELSE LET bits == IF initial_state = None THEN CompactStateWithCapacity(n)
                     ELSE ToggleInitial(CompactStateWithCapacity(n), initial_state[1], 0)
             magnetic_field_strength_values ==
                 [k \in 1..n |-> IF Contains(bits, k - 1) THEN field[k] ELSE -field[k]]
             total_interactions == (n * (n - 1)) \div 2
             linearized == Linearize([k \in 1..total_interactions |-> 0], ints, bits, n,
                                     overflow_checks)
             lin == linearized.lin
         IN  IF linearized.panic THEN Panic ELSE
             [panic |-> FALSE,
              spins |-> bits,
              linearized_interactions |-> lin,
              external_magnetic_field |-> field,
              interaction_energy |-> FenwickFromIter(lin),
              magnetic_field_energy |-> FenwickFromIter(magnetic_field_strength_values)]

\* the loop of hamiltonian.rs:84-97, from j upwards; H.spins is already toggled
RECURSIVE FlipInteractions(_, _, _, _)
FlipInteractions(H, spin, sign_change, j) ==
    LET n == H.spins.len IN
    IF j >= n THEN H
    ELSE IF j = spin THEN FlipInteractions(H, spin, sign_change, j + 1)
    ELSE LET index == map_interaction_to_index(Min(spin, j), Max(spin, j), n) IN
         IF index < Len(H.linearized_interactions)
         THEN LET interaction_strength == At(H.linearized_interactions, index)
                  other_spin_sign == SpinValue(Contains(H.spins, j))
              IN  FlipInteractions(
                      [H EXCEPT !.interaction_energy =
                           FenwickAddAt(@, index,
                                        interaction_strength * sign_change * other_spin_sign)],
                      spin, sign_change, j + 1)
         ELSE FlipInteractions(H, spin, sign_change, j + 1)

\* mutant: the bit is left as it was
flip_spin_no_toggle(H, spin) ==
    LET sign_change == IF Contains(H.spins, spin) THEN 2 ELSE -2
        coupled == FlipInteractions(H, spin, sign_change, 0)
    IN  IF spin < Len(H.external_magnetic_field)
        THEN [coupled EXCEPT !.magnetic_field_energy =
                  FenwickAddAt(@, spin, sign_change * At(H.external_magnetic_field, spin))]
        ELSE coupled

\* mutant: the sign of the change is read before the bit is toggled
flip_spin_stale_sign(H, spin) ==
    LET toggled == [H EXCEPT !.spins = Toggle(@, spin)]
        sign_change == IF Contains(H.spins, spin) THEN 2 ELSE -2
        coupled == FlipInteractions(toggled, spin, sign_change, 0)
    IN  [coupled EXCEPT !.magnetic_field_energy =
             FenwickAddAt(@, spin, sign_change * At(H.external_magnetic_field, spin))]

flip_spin(H, spin) ==
    LET toggled == [H EXCEPT !.spins = Toggle(@, spin)]
        sign_change == IF Contains(toggled.spins, spin) THEN 2 ELSE -2
        coupled == FlipInteractions(toggled, spin, sign_change, 0)
    IN  IF spin < Len(H.external_magnetic_field)
        THEN [coupled EXCEPT !.magnetic_field_energy =
                  FenwickAddAt(@, spin, sign_change * At(H.external_magnetic_field, spin))]
        ELSE coupled

current_energy(H) ==
    LET interaction_energy ==
            FenwickPrefixSum(H.interaction_energy, Len(H.interaction_energy), 0)
        external_magnetic_field_energy ==
            FenwickPrefixSum(H.magnetic_field_energy, Len(H.magnetic_field_energy), 0)
    IN  (-interaction_energy) + (-external_magnetic_field_energy)

(***************************************************************************)
(* The Ising energy of the glossary, from scratch:                         *)
(* H(s) = -sum_{pairs} J_ij s_i s_j - sum_i h_i s_i                        *)
(***************************************************************************)
RECURSIVE PairSum(_, _)
PairSum(ints, bits) ==
    IF ints = <<>> THEN 0
    ELSE ints[1][3] * SpinValue(At(bits, ints[1][1])) * SpinValue(At(bits, ints[1][2]))
         + PairSum(Tail(ints), bits)

RECURSIVE FieldSum(_, _, _)
FieldSum(field, bits, k) ==
    IF k > Len(field) THEN 0
    ELSE field[k] * SpinValue(bits[k]) + FieldSum(field, bits, k + 1)

IsingEnergy(ints, field, bits) == (-PairSum(ints, bits)) - FieldSum(field, bits, 1)

AllStates(n) == [1..n -> BOOLEAN]


(***************************************************************************)
(* solvers.rs: helpers                                                     *)
(***************************************************************************)
RECURSIVE Xor(_, _)
Xor(a, b) ==
    IF a = 0 THEN b
    ELSE IF b = 0 THEN a
    ELSE (((a % 2) + (b % 2)) % 2) + 2 * Xor(a \div 2, b \div 2)

RECURSIVE TrailingZeros(_)
TrailingZeros(d) == IF d % 2 = 1 THEN 0 ELSE 1 + TrailingZeros(d \div 2)

\* mutant: plain binary counting
gray_code_binary(n) == n

gray_code(n) == Xor(n, n \div 2)

bit_position_changed(a, b) ==
    LET diff == Xor(a, b) IN IF diff = 0 THEN None ELSE Some(TrailingZeros(diff))

from_compact_state_to_state(compact_state) ==
    [k \in 1..compact_state.len |-> (k - 1) \in compact_state.ones]

RECURSIVE MapStates(_)
MapStates(gs) ==
    IF gs = <<>> THEN <<>>
    ELSE <<<<gs[1][1], from_compact_state_to_state(gs[1][2])>>>> \o MapStates(Tail(gs))

(***************************************************************************)
(* The problems the solvers and the Hamiltonian are run on: the problems   *)
(* of the source's tests, and every problem of 2..MaxSpins spins and at    *)
(* most MaxInteractions couplings, each +2c (pair given as (a,b)) or -c    *)
(* (pair given as (b,a)), whose fields are 0 or, by the parity of the      *)
(* spin, -c or +2c, for c = 1/2 and for c = 2^-25.                         *)
(***************************************************************************)
Pairs(n) == {p \in (0..(n - 1)) \X (0..(n - 1)) : p[1] < p[2]}

PairRank(p, n) ==
    Cardinality({q \in Pairs(n) : q[1] < p[1] \/ (q[1] = p[1] /\ q[2] < p[2])})

RECURSIVE InteractionList(_, _, _, _)
InteractionList(n, choice, c, k) ==
    IF k >= Cardinality(Pairs(n)) THEN <<>>
    ELSE LET p == CHOOSE q \in Pairs(n) : PairRank(q, n) = k
             rest == InteractionList(n, choice, c, k + 1)
         IN  CASE choice[p] = 0 -> rest
               [] choice[p] = 1 -> <<<<p[1], p[2], 2 * c>>>> \o rest
               [] choice[p] = 2 -> <<<<p[2], p[1], -c>>>> \o rest

Scales == {Half, Tiny}

GenericProblems ==
    UNION { UNION { { [interactions |-> InteractionList(n, choice, c, 0),
                       field |-> [k \in 1..n |->
                                     IF h[k] THEN (IF k % 2 = 1 THEN -c ELSE 2 * c)
                                     ELSE 0]] :
                      h \in [1..n -> BOOLEAN] } :
                    choice \in { ch \in [Pairs(n) -> 0..2] :
                                   /\ \E p \in Pairs(n) : p[2] = n - 1 /\ ch[p] # 0
                                   /\ Cardinality({p \in Pairs(n) : ch[p] # 0})
                                          <= MaxInteractions } } :
            n \in 2..MaxSpins, c \in Scales }

\* hamiltonian.rs:124-125
TestTotalEnergy ==
    [interactions |-> <<<<0, 1, -Unit>>, <<1, 2, 2 * Unit>>, <<0, 2, 2 * Unit>>>>,
     field |-> <<-Unit, -Unit, -3 * Unit>>]

\* solvers.rs:251-255
TestAnd ==
    [interactions |-> <<<<0, 1, -Half>>, <<0, 2, Unit>>, <<1, 2, Unit>>>>,
     field |-> <<Half, Half, -Unit>>]

\* solvers.rs:325-329
TestOr ==
    [interactions |-> <<<<0, 2, Unit>>, <<1, 2, Unit>>, <<0, 1, -Half>>>>,
     field |-> <<-Half, -Half, Unit>>]

\* solvers.rs:271-272
TestCopy == [interactions |-> <<<<0, 1, Unit>>>>, field |-> <<0, 0>>]

\* solvers.rs:281-282
TestCopyCopyCopy ==
    [interactions |-> <<<<0, 1, Unit>>, <<1, 2, Unit>>, <<2, 3, Unit>>>>,
     field |-> <<0, 0, 0, 0>>]

\* solvers.rs:303-308
TestCopyAndThenAnd ==
    [interactions |-> <<<<0, 1, Unit>>, <<2, 3, Unit>>, <<1, 3, -Half>>,
                        <<1, 4, Unit>>, <<3, 4, Unit>>, <<4, 5, Unit>>>>,
     field |-> <<0, Half, 0, Half, -Unit, 0>>]

\* solvers.rs:355-364
TestTernaryOrChain ==
    [interactions |-> <<<<0, 1, -Half>>, <<0, 2, Unit>>, <<1, 2, Unit>>, <<2, 3, Unit>>,
                        <<3, 4, -Half>>, <<4, 5, Unit>>, <<3, 5, Unit>>>>,
     field |-> <<-Half, -Half, Unit, -Half, -Half, Unit>>]

TestProblems ==
    {TestTotalEnergy, TestAnd, TestOr, TestCopy, TestCopyCopyCopy, TestCopyAndThenAnd,
     TestTernaryOrChain}

Problems == TestProblems \cup GenericProblems

Idle == "-"

(***************************************************************************)
(* SpecHam: a TwoLocalHamiltonian built with no initial state and then     *)
(* mutated by flip_spin only.                                              *)
(***************************************************************************)
InitHam ==
    /\ \E p \in Problems :
          /\ interactions = p.interactions
          /\ external_magnetic_field = p.field
          /\ initial_state_arg = None
    /\ pc = "ham_new"
    /\ two_local_hamiltonian = Idle
    /\ i = Idle /\ lowest_energy = Idle /\ ground_states = Idle /\ output = Idle
    /\ spin_network = Idle /\ program = Idle /\ returned = Idle
    /\ configuration_override = Idle /\ anneal = Idle /\ anneal_twin = Idle

HamNew ==
    /\ pc = "ham_new"
    /\ \E overflow_checks \in BOOLEAN :
          LET H == TwoLocalHamiltonian_new(interactions, external_magnetic_field,
                                           initial_state_arg, overflow_checks)
          IN  /\ two_local_hamiltonian' = H
              /\ pc' = IF H.panic THEN "panic" ELSE "ham"
    /\ program' = <<>>
    /\ UNCHANGED <<interactions, external_magnetic_field, initial_state_arg, i,
                   lowest_energy, ground_states,
                   output, spin_network, returned, configuration_override,
                   anneal, anneal_twin>>

\* the last two calls of a caller, each with the Hamiltonian it was made on
LastTwo(calls, call) ==
    IF Len(calls) < 2 THEN Append(calls, call) ELSE <<calls[2], call>>

\* program remembers the last two flip_spin calls
HamFlip ==
    /\ pc = "ham"
    /\ \E spin \in 0..(two_local_hamiltonian.spins.len - 1) :
          /\ two_local_hamiltonian' = flip_spin(two_local_hamiltonian, spin)
          /\ program' = LastTwo(program, [spin |-> spin,
                                            spins |-> two_local_hamiltonian.spins,
                                            energy |-> current_energy(two_local_hamiltonian)])
    /\ UNCHANGED <<pc, interactions, external_magnetic_field, initial_state_arg, i,
                   lowest_energy,
                   ground_states, output, spin_network, returned,
                   configuration_override, anneal, anneal_twin>>

NextHam == HamNew \/ HamFlip

SpecHam == InitHam /\ [][NextHam]_vars

\* C1: for a Hamiltonian built with no initial state from a valid input, after any
\* sequence of flip_spin calls current_energy() equals the from-scratch Ising sum
\* over the current spins; on the problem of test_total_energy the energies are
\* -8, -4 after flip 0, +4 after also flip 1, +2 after also flip 2.
C1_EnergyIsIsingSum ==
    pc = "ham" =>
        LET s == from_compact_state_to_state(two_local_hamiltonian.spins)
            E == current_energy(two_local_hamiltonian)
        IN  /\ E = IsingEnergy(interactions, external_magnetic_field, s)
            /\ (interactions = TestTotalEnergy.interactions
                /\ external_magnetic_field = TestTotalEnergy.field) =>
                   /\ s = <<FALSE, FALSE, FALSE>> => E = -8 * Unit
                   /\ s = <<TRUE, FALSE, FALSE>> => E = -4 * Unit
                   /\ s = <<TRUE, TRUE, FALSE>> => E = 4 * Unit
                   /\ s = <<TRUE, TRUE, TRUE>> => E = 2 * Unit

\* C1 witness: the test's problem after flips of 0, 1 and 2, at energy +2
C1_Witness ==
    /\ pc = "ham"
    /\ interactions = TestTotalEnergy.interactions
    /\ two_local_hamiltonian.spins.ones = {0, 1, 2}
    /\ current_energy(two_local_hamiltonian) = 2 * Unit


(***************************************************************************)
(* find_all_ground_states (solvers.rs:52-88)                               *)
(***************************************************************************)
\* (energy - lowest).abs() < EPSILON, written without the subtraction so that
\* the difference of two energies of opposite sign stays in range
WithinEpsilon(energy, lowest) == energy < lowest + EPSILON /\ lowest < energy + EPSILON

\* solvers.rs:74-81: what one visited configuration does to the running minimum
\* and to the list of ground states
\* mutant: a lower energy does not clear the list
RecordVisited_no_clear(lowest, gs, energy, compact) ==
    IF WithinEpsilon(energy, lowest)
    THEN [lowest_energy |-> lowest, ground_states |-> Append(gs, <<energy, compact>>)]
    ELSE IF energy < lowest
    THEN [lowest_energy |-> energy, ground_states |-> Append(gs, <<energy, compact>>)]
    ELSE [lowest_energy |-> lowest, ground_states |-> gs]

\* mutant: the state that lowers the minimum is lost with the cleared list
RecordVisited_push_then_clear(lowest, gs, energy, compact) ==
    IF WithinEpsilon(energy, lowest)
    THEN [lowest_energy |-> lowest, ground_states |-> Append(gs, <<energy, compact>>)]
    ELSE IF energy < lowest
    THEN [lowest_energy |-> energy, ground_states |-> <<>>]
    ELSE [lowest_energy |-> lowest, ground_states |-> gs]

\* mutant: a tie is put at the front of the list
RecordVisited_prepend(lowest, gs, energy, compact) ==
    IF WithinEpsilon(energy, lowest)
    THEN [lowest_energy |-> lowest, ground_states |-> <<<<energy, compact>>>> \o gs]
    ELSE IF energy < lowest
    THEN [lowest_energy |-> energy, ground_states |-> <<<<energy, compact>>>>]
    ELSE [lowest_energy |-> lowest, ground_states |-> gs]

\* mutant: the recorded states are not copies, they follow the live spins
RecordVisited_aliased(lowest, gs, energy, compact) ==
    LET live == [k \in 1..Len(gs) |-> <<gs[k][1], compact>>]
    IN  IF WithinEpsilon(energy, lowest)
        THEN [lowest_energy |-> lowest, ground_states |-> Append(live, <<energy, compact>>)]
        ELSE IF energy < lowest
        THEN [lowest_energy |-> energy, ground_states |-> <<<<energy, compact>>>>]
        ELSE [lowest_energy |-> lowest, ground_states |-> live]

RecordVisited(lowest, gs, energy, compact) ==
    IF WithinEpsilon(energy, lowest)
    THEN [lowest_energy |-> lowest, ground_states |-> Append(gs, <<energy, compact>>)]
    ELSE IF energy < lowest
    THEN [lowest_energy |-> energy, ground_states |-> <<<<energy, compact>>>>]
    ELSE [lowest_energy |-> lowest, ground_states |-> gs]

\* solvers.rs:56-66
ExactNew ==
    /\ pc = "exact_new"
    /\ \E overflow_checks \in BOOLEAN :
       LET n == Len(external_magnetic_field)
           initial_state == CompactStateWithCapacity(n)
           H == TwoLocalHamiltonian_new(interactions, external_magnetic_field,
                                        Some(AllFalse(n)), overflow_checks)
       IN  /\ two_local_hamiltonian' = H
           /\ IF H.panic
              THEN /\ pc' = "panic"
                   /\ UNCHANGED <<i, lowest_energy, ground_states>>
              ELSE LET initial_energy == current_energy(H) IN
                   /\ lowest_energy' = initial_energy
                   /\ ground_states' = <<<<initial_energy, initial_state>>>>
                   /\ i' = 1
                   /\ pc' = "exact_loop"
    /\ UNCHANGED <<interactions, external_magnetic_field, initial_state_arg, output,
                   spin_network, program,
                   returned, configuration_override, anneal, anneal_twin>>

\* solvers.rs:68-82: one iteration of the loop
ExactLoop ==
    /\ pc = "exact_loop"
    /\ i < 2 ^ Len(external_magnetic_field)
    /\ LET prev_gray == gray_code(i - 1)
           curr_gray == gray_code(i)
           bit_pos == bit_position_changed(prev_gray, curr_gray)
           H == IF bit_pos = None THEN two_local_hamiltonian
                ELSE flip_spin(two_local_hamiltonian, bit_pos[1])
           rec == RecordVisited(lowest_energy, ground_states, current_energy(H), H.spins)
       IN  /\ two_local_hamiltonian' = H
           /\ lowest_energy' = rec.lowest_energy
           /\ ground_states' = rec.ground_states
    /\ i' = i + 1
    /\ UNCHANGED <<pc, interactions, external_magnetic_field, initial_state_arg, output,
                   spin_network,
                   program, returned, configuration_override, anneal, anneal_twin>>

\* solvers.rs:84-87
ExactReturn ==
    /\ pc = "exact_loop"
    /\ i >= 2 ^ Len(external_magnetic_field)
    /\ output' = MapStates(ground_states)
    /\ pc' = "done"
    /\ UNCHANGED <<interactions, external_magnetic_field, initial_state_arg,
                   two_local_hamiltonian, i,
                   lowest_energy, ground_states, spin_network, program, returned,
                   configuration_override, anneal, anneal_twin>>

InitExact ==
    /\ \E p \in Problems :
          /\ interactions = p.interactions
          /\ external_magnetic_field = p.field
          /\ initial_state_arg = None
    /\ pc = "exact_new"
    /\ two_local_hamiltonian = Idle
    /\ i = Idle /\ lowest_energy = Idle /\ ground_states = Idle /\ output = Idle
    /\ spin_network = Idle /\ program = Idle /\ returned = Idle
    /\ configuration_override = Idle /\ anneal = Idle /\ anneal_twin = Idle

NextExact == ExactNew \/ ExactLoop \/ ExactReturn

SpecExact == InitExact /\ [][NextExact]_vars

\* the minimum of the Ising energy over all 2^n configurations
MinEnergy(ints, field) ==
    LET n == Len(field)
        energies == {IsingEnergy(ints, field, s) : s \in AllStates(n)}
    IN  CHOOSE m \in energies : \A e \in energies : m <= e

\* two configurations whose energies differ, but by less than f32::EPSILON
HasNearTie(ints, field) ==
    \E s, t \in AllStates(Len(field)) :
        LET d == IsingEnergy(ints, field, s) - IsingEnergy(ints, field, t)
        IN  0 < d /\ d < EPSILON

\* C2 (as claimed): every returned pair has the same energy E, E is the Ising energy
\* of its state, and E is the minimum over all 2^n configurations.
C2_AllAtGlobalMinimum ==
    pc = "done" =>
        \A k \in 1..Len(output) :
            /\ output[k][1] = output[1][1]
            /\ output[k][1] = IsingEnergy(interactions, external_magnetic_field, output[k][2])
            /\ output[k][1] = MinEnergy(interactions, external_magnetic_field)

\* C2 (amended): every returned E is the Ising energy of its state and lies less than
\* f32::EPSILON from the first returned energy, which is less than f32::EPSILON above
\* the global minimum; when no two configurations have energies that differ by less
\* than f32::EPSILON without being equal, every returned E is the global minimum.
C2_AllWithinEpsilonOfMinimum ==
    pc = "done" =>
        LET m == MinEnergy(interactions, external_magnetic_field) IN
        /\ Len(output) >= 1
        /\ output[1][1] - m < EPSILON
        /\ \A k \in 1..Len(output) :
              /\ output[k][1] =
                     IsingEnergy(interactions, external_magnetic_field, output[k][2])
              /\ Abs(output[k][1] - output[1][1]) < EPSILON
              /\ ~HasNearTie(interactions, external_magnetic_field) => output[k][1] = m

\* C2 witness: the running minimum was lowered during the walk (the list was cleared)
\* and the returned states do not all have the energy of the first
C2_Witness ==
    /\ pc = "done"
    /\ output[1][2] # AllFalse(Len(external_magnetic_field))
    /\ \E k \in 1..Len(output) : output[k][1] # output[1][1]

\* C3: every configuration whose Ising energy equals the global minimum appears in
\* the output, exactly once, and no state is recorded twice.
C3_EveryMinimumOnce ==
    pc = "done" =>
        /\ \A s \in AllStates(Len(external_magnetic_field)) :
              IsingEnergy(interactions, external_magnetic_field, s)
                  = MinEnergy(interactions, external_magnetic_field)
              => Cardinality({k \in 1..Len(output) : output[k][2] = s}) = 1
        /\ \A a, b \in 1..Len(output) : output[a][2] = output[b][2] => a = b

\* C3 witness: a run in which the list was cleared and at least three states are
\* returned afterwards
C3_Witness ==
    /\ pc = "done"
    /\ Len(output) >= 3
    /\ output[1][2] # AllFalse(Len(external_magnetic_field))

\* the spin configuration whose bit b is bit b of the code g
StateOfCode(g, n) == [k \in 1..n |-> (g \div (2 ^ (k - 1))) % 2 = 1]

GrayIndex(s) ==
    CHOOSE k \in 0..(2 ^ Len(s) - 1) : StateOfCode(gray_code(k), Len(s)) = s

\* C4: the returned states are a subsequence of g(0), g(1), ..., g(2^n - 1) with
\* g(k) = k XOR (k >> 1); the AND and OR patterns of the tests come out in the
\* order the tests expect.
C4_GrayOrder ==
    pc = "done" =>
        /\ \A a, b \in 1..Len(output) :
              a < b => GrayIndex(output[a][2]) < GrayIndex(output[b][2])
        /\ (interactions = TestAnd.interactions /\ external_magnetic_field = TestAnd.field)
           => output = << <<-3 * Half, <<FALSE, FALSE, FALSE>>>>,
                          <<-3 * Half, <<TRUE, FALSE, FALSE>>>>,
                          <<-3 * Half, <<FALSE, TRUE, FALSE>>>>,
                          <<-3 * Half, <<TRUE, TRUE, TRUE>>>> >>
        /\ (interactions = TestOr.interactions /\ external_magnetic_field = TestOr.field)
           => output = << <<-3 * Half, <<FALSE, FALSE, FALSE>>>>,
                          <<-3 * Half, <<FALSE, TRUE, TRUE>>>>,
                          <<-3 * Half, <<TRUE, TRUE, TRUE>>>>,
                          <<-3 * Half, <<TRUE, FALSE, TRUE>>>> >>

\* C4 witness: an output that is not in lexicographic (numeric) order of its states
C4_Witness ==
    /\ pc = "done"
    /\ interactions = TestOr.interactions
    /\ external_magnetic_field = TestOr.field
    /\ Len(output) = 4
    /\ output[2][2] = <<FALSE, TRUE, TRUE>>
    /\ output[4][2] = <<TRUE, FALSE, TRUE>>


(***************************************************************************)
(* SpinNetwork (spin_network.rs:23-129).  A builder operation yields the   *)
(* network after it and the spin index it returns.                         *)
(***************************************************************************)
SpinNetwork_new ==
    [input_nodes |-> <<>>, auxiliary_nodes |-> <<>>, output_nodes |-> <<>>,
     interactions |-> <<>>, external_magnetic_field |-> <<>>]

\* mutant: the index returned is the new length
add_free_node_one_based(net) ==
    LET field == Append(net.external_magnetic_field, 0)
    IN  [net |-> [net EXCEPT !.external_magnetic_field = field], index |-> Len(field)]

add_free_node(net) ==
    LET field == Append(net.external_magnetic_field, 0)
    IN  [net |-> [net EXCEPT !.external_magnetic_field = field], index |-> Len(field) - 1]

add_output_node(net, magnetic_field_strength) ==
    LET r == add_free_node(net)
    IN  [net |-> [r.net EXCEPT !.output_nodes = Append(@, r.index),
                               !.external_magnetic_field[r.index + 1] =
                                    magnetic_field_strength],
         index |-> r.index]

add_auxiliary_node(net, magnetic_field_strength) ==
    LET r == add_free_node(net)
    IN  [net |-> [r.net EXCEPT !.auxiliary_nodes = Append(@, r.index),
                               !.external_magnetic_field[r.index + 1] =
                                    magnetic_field_strength],
         index |-> r.index]

add_input_node(net, magnetic_field_strength) ==
    LET r == add_free_node(net)
    IN  [net |-> [r.net EXCEPT !.input_nodes = Append(@, r.index),
                               !.external_magnetic_field[r.index + 1] =
                                    magnetic_field_strength],
         index |-> r.index]

\* spin_network.interactions.push(..), one triple after the other
RECURSIVE PushAll(_, _)
PushAll(net, triples) ==
    IF triples = <<>> THEN net
    ELSE PushAll([net EXCEPT !.interactions = Append(@, triples[1])], Tail(triples))

(***************************************************************************)
(* The gates (spin_network.rs:131-380)                                     *)
(***************************************************************************)
COPY_new(magnetic_field_strength) ==
    [kind |-> "COPY", magnetic_field_strength |-> magnetic_field_strength]

COPY_connect_to_one(self, net, input) ==
    LET out == add_output_node(net, self.magnetic_field_strength)
    IN  [net |-> PushAll(out.net, << <<input, out.index, Unit>> >>), index |-> out.index]

NOT_connect_to_one(net, input) ==
    LET out == add_output_node(net, 0)
    IN  [net |-> PushAll(out.net, << <<input, out.index, -Unit>> >>), index |-> out.index]

add_unary_node(net, input, unary_node) ==
    IF unary_node.kind = "COPY" THEN COPY_connect_to_one(unary_node, net, input)
    ELSE NOT_connect_to_one(net, input)

\* mutant: AND built with the copy bias of OR
AND_connect_to_two_or_bias(net, left_input, right_input) ==
    LET out == add_output_node(net, -Unit)
        copy_with_half == COPY_new(-Half)
        left == add_unary_node(out.net, left_input, copy_with_half)
        right == add_unary_node(left.net, right_input, copy_with_half)
    IN  [net |-> PushAll(right.net, << <<left.index, right.index, -Half>>,
                                       <<left.index, out.index, Unit>>,
                                       <<right.index, out.index, Unit>> >>),
         index |-> out.index]

AND_connect_to_two(net, left_input, right_input) ==
    LET out == add_output_node(net, -Unit)
        copy_with_half == COPY_new(Half)
        left == add_unary_node(out.net, left_input, copy_with_half)
        right == add_unary_node(left.net, right_input, copy_with_half)
        left_to_right == <<left.index, right.index, -Half>>
        left_to_output == <<left.index, out.index, Unit>>
        right_to_output == <<right.index, out.index, Unit>>
    IN  [net |-> PushAll(right.net, <<left_to_right, left_to_output, right_to_output>>),
         index |-> out.index]

\* mutant: the right copy is wired to the left input
OR_connect_to_two_left_twice(net, left_input, right_input) ==
    LET out == add_output_node(net, Unit)
        copy_with_minus_half == COPY_new(-Half)
        left == add_unary_node(out.net, left_input, copy_with_minus_half)
        right == add_unary_node(left.net, left_input, copy_with_minus_half)
    IN  [net |-> PushAll(right.net, << <<left.index, right.index, -Half>>,
                                       <<left.index, out.index, Unit>>,
                                       <<right.index, out.index, Unit>> >>),
         index |-> out.index]

OR_connect_to_two(net, left_input, right_input) ==
    LET out == add_output_node(net, Unit)
        copy_with_minus_half == COPY_new(-Half)
        left == add_unary_node(out.net, left_input, copy_with_minus_half)
        right == add_unary_node(left.net, right_input, copy_with_minus_half)
        left_to_right == <<left.index, right.index, -Half>>
        left_to_output == <<left.index, out.index, Unit>>
        right_to_output == <<right.index, out.index, Unit>>
    IN  [net |-> PushAll(right.net, <<left_to_right, left_to_output, right_to_output>>),
         index |-> out.index]

\* mutant: the gate is wired to its inputs, without copies
NAND_connect_to_two_no_copies(net, left_input, right_input) ==
    LET out == add_output_node(net, Unit)
        left_to_right == <<left_input, right_input, -Half>>
        left_to_output == <<left_input, out.index, -Unit>>
        right_to_output == <<right_input, out.index, -Unit>>
    IN  [net |-> PushAll(out.net, <<left_to_right, left_to_output, right_to_output>>),
         index |-> out.index]

NAND_connect_to_two(net, left_input, right_input) ==
    LET out == add_output_node(net, Unit)
        copy_with_minus_half == COPY_new(Half)
        left == add_unary_node(out.net, left_input, copy_with_minus_half)
        right == add_unary_node(left.net, right_input, copy_with_minus_half)
        left_to_right == <<left.index, right.index, -Half>>
        left_to_output == <<left.index, out.index, -Unit>>
        right_to_output == <<right.index, out.index, -Unit>>
    IN  [net |-> PushAll(right.net, <<left_to_right, left_to_output, right_to_output>>),
         index |-> out.index]

NOR_connect_to_two(net, left_input, right_input) ==
    LET out == add_output_node(net, -Unit)
        copy_with_minus_half == COPY_new(-Half)
        left == add_unary_node(out.net, left_input, copy_with_minus_half)
        right == add_unary_node(left.net, right_input, copy_with_minus_half)
        left_to_right == <<left.index, right.index, -Half>>
        left_to_output == <<left.index, out.index, -Unit>>
        right_to_output == <<right.index, out.index, -Unit>>
    IN  [net |-> PushAll(right.net, <<left_to_right, left_to_output, right_to_output>>),
         index |-> out.index]

XOR_connect_to_two(net, left_input, right_input) ==
    LET out == add_output_node(net, -Half)
        aux == add_auxiliary_node(out.net, -Unit)
        copy_with_minus_half == COPY_new(-Half)
        left == add_unary_node(aux.net, left_input, copy_with_minus_half)
        right == add_unary_node(left.net, right_input, copy_with_minus_half)
        left_to_right == <<left.index, right.index, -Half>>
        left_to_aux == <<left.index, aux.index, -Unit>>
        right_to_aux == <<right.index, aux.index, -Unit>>
        left_to_output == <<left.index, out.index, -Half>>
        right_to_output == <<right.index, out.index, -Half>>
        aux_to_output == <<aux.index, out.index, -Unit>>
    IN  [net |-> PushAll(right.net, <<left_to_right, left_to_aux, right_to_aux,
                                      left_to_output, right_to_output, aux_to_output>>),
         index |-> out.index]

XNOR_connect_to_two(net, left_input, right_input) ==
    LET out == add_output_node(net, Half)
        aux == add_auxiliary_node(out.net, -Unit)
        copy_with_minus_half == COPY_new(-Half)
        left == add_unary_node(aux.net, left_input, copy_with_minus_half)
        right == add_unary_node(left.net, right_input, copy_with_minus_half)
        left_to_right == <<left.index, right.index, -Half>>
        left_to_aux == <<left.index, aux.index, -Unit>>
        right_to_aux == <<right.index, aux.index, -Unit>>
        left_to_output == <<left.index, out.index, Half>>
        right_to_output == <<right.index, out.index, Half>>
        aux_to_output == <<aux.index, out.index, Unit>>
    IN  [net |-> PushAll(right.net, <<left_to_right, left_to_aux, right_to_aux,
                                      left_to_output, right_to_output, aux_to_output>>),
         index |-> out.index]

add_binary_node(net, left_input, right_input, binary_node) ==
    CASE binary_node = "AND" -> AND_connect_to_two(net, left_input, right_input)
      [] binary_node = "OR" -> OR_connect_to_two(net, left_input, right_input)
      [] binary_node = "NAND" -> NAND_connect_to_two(net, left_input, right_input)
      [] binary_node = "NOR" -> NOR_connect_to_two(net, left_input, right_input)
      [] binary_node = "XOR" -> XOR_connect_to_two(net, left_input, right_input)
      [] binary_node = "XNOR" -> XNOR_connect_to_two(net, left_input, right_input)

\* nodelib/logic_gates.rs:109-139, the ternary OR pattern
OR_connect_to_three(net, first_input, second_input, third_input) ==
    LET out == add_output_node(net, Unit)
        copy_with_minus_third == COPY_new(-Third)
        first == add_unary_node(out.net, first_input, copy_with_minus_third)
        second == add_unary_node(first.net, second_input, copy_with_minus_third)
        third == add_unary_node(second.net, third_input, copy_with_minus_third)
        first_to_second == <<first.index, second.index, -Third>>
        first_to_third == <<first.index, third.index, -Third>>
        second_to_third == <<second.index, third.index, -Third>>
        first_to_output == <<first.index, out.index, Unit>>
        second_to_output == <<second.index, out.index, Unit>>
        third_to_output == <<third.index, out.index, Unit>>
    IN  [net |-> PushAll(third.net, <<first_to_second, first_to_third, second_to_third,
                                      first_to_output, second_to_output, third_to_output>>),
         index |-> out.index]

\* spin_network.rs:81-93: the states restricted to spin_ordering
RECURSIVE ProjectStates(_, _)
ProjectStates(states, spin_ordering) ==
    IF states = <<>> THEN <<>>
    ELSE LET energy == states[1][1]
             state == states[1][2]
             projected == IF spin_ordering = None THEN state
                          ELSE [k \in 1..Len(spin_ordering[1]) |->
                                    At(state, spin_ordering[1][k])]
         IN  <<<<energy, projected>>>> \o ProjectStates(Tail(states), spin_ordering)


(***************************************************************************)
(* Circuits: the builder calls of a program in order, each argument naming *)
(* the value an earlier call returned (1 = the first call's), and the      *)
(* spin_ordering handed to find_all_ground_states: the free inputs, then   *)
(* the output of the last gate, as in spin_network.rs:386-549.             *)
(***************************************************************************)
UnaryNodes == {COPY_new(0), [kind |-> "NOT"]}
BinaryNodes == {"AND", "OR", "NAND", "NOR", "XOR", "XNOR"}

InputCall == [op |-> "add_input_node", magnetic_field_strength |-> 0]
UnaryCall(input, node) == [op |-> "add_unary_node", input |-> input, node |-> node]
BinaryCall(left, right, node) ==
    [op |-> "add_binary_node", left_input |-> left, right_input |-> right, node |-> node]
TernaryCall(first, second, third) ==
    [op |-> "connect_to_three", first_input |-> first, second_input |-> second,
     third_input |-> third]

SingleUnary(g) ==
    [calls |-> <<InputCall, UnaryCall(1, g)>>, spin_ordering |-> Some(<<1, 2>>)]
SingleBinary(g) ==
    [calls |-> <<InputCall, InputCall, BinaryCall(1, 2, g)>>,
     spin_ordering |-> Some(<<1, 2, 3>>)]
\* g2(g1(s0, s1), s2)
BinaryThenBinary(g1, g2) ==
    [calls |-> <<InputCall, InputCall, InputCall, BinaryCall(1, 2, g1),
                 BinaryCall(4, 3, g2)>>,
     spin_ordering |-> Some(<<1, 2, 3, 5>>)]
\* u(g(s0, s1))
BinaryThenUnary(g, u) ==
    [calls |-> <<InputCall, InputCall, BinaryCall(1, 2, g), UnaryCall(3, u)>>,
     spin_ordering |-> Some(<<1, 2, 4>>)]
\* g(u(s0), s1)
UnaryThenBinary(u, g) ==
    [calls |-> <<InputCall, InputCall, UnaryCall(1, u), BinaryCall(3, 2, g)>>,
     spin_ordering |-> Some(<<1, 2, 4>>)]
TernaryOr ==
    [calls |-> <<InputCall, InputCall, InputCall, TernaryCall(1, 2, 3)>>,
     spin_ordering |-> Some(<<1, 2, 3, 4>>)]

Circuits ==
    {SingleUnary(g) : g \in UnaryNodes}
    \cup {SingleBinary(g) : g \in BinaryNodes}
    \cup {BinaryThenBinary(c[1], c[2]) : c \in BinaryNodes \X BinaryNodes}
    \cup {BinaryThenUnary(c[1], c[2]) : c \in BinaryNodes \X UnaryNodes}
    \cup {UnaryThenBinary(c[1], c[2]) : c \in UnaryNodes \X BinaryNodes}
    \cup {TernaryOr}

NextCall == program.calls[Len(returned) + 1]
Arg(k) == returned[k]

GateIdle == <<interactions, external_magnetic_field, initial_state_arg,
              two_local_hamiltonian, i,
              lowest_energy, ground_states, output, program,
              configuration_override, anneal, anneal_twin>>

AddInputNode ==
    /\ pc = "build"
    /\ Len(returned) < Len(program.calls)
    /\ NextCall.op = "add_input_node"
    /\ LET r == add_input_node(spin_network, NextCall.magnetic_field_strength)
       IN  /\ spin_network' = r.net
           /\ returned' = Append(returned, r.index)
    /\ UNCHANGED <<pc, GateIdle>>

AddUnaryNode ==
    /\ pc = "build"
    /\ Len(returned) < Len(program.calls)
    /\ NextCall.op = "add_unary_node"
    /\ LET r == add_unary_node(spin_network, Arg(NextCall.input), NextCall.node)
       IN  /\ spin_network' = r.net
           /\ returned' = Append(returned, r.index)
    /\ UNCHANGED <<pc, GateIdle>>

AddBinaryNode ==
    /\ pc = "build"
    /\ Len(returned) < Len(program.calls)
    /\ NextCall.op = "add_binary_node"
    /\ LET r == add_binary_node(spin_network, Arg(NextCall.left_input),
                                Arg(NextCall.right_input), NextCall.node)
       IN  /\ spin_network' = r.net
           /\ returned' = Append(returned, r.index)
    /\ UNCHANGED <<pc, GateIdle>>

ConnectToThree ==
    /\ pc = "build"
    /\ Len(returned) < Len(program.calls)
    /\ NextCall.op = "connect_to_three"
    /\ LET r == OR_connect_to_three(spin_network, Arg(NextCall.first_input),
                                    Arg(NextCall.second_input),
                                    Arg(NextCall.third_input))
       IN  /\ spin_network' = r.net
           /\ returned' = Append(returned, r.index)
    /\ UNCHANGED <<pc, GateIdle>>

\* SpinNetwork::find_all_ground_states, spin_network.rs:79: the call of
\* the solver on the network's interactions and field
SpinNetworkFindAllGroundStates ==
    /\ pc = "build"
    /\ Len(returned) = Len(program.calls)
    /\ interactions' = spin_network.interactions
    /\ external_magnetic_field' = spin_network.external_magnetic_field
    /\ pc' = "exact_new"
    /\ UNCHANGED <<initial_state_arg, two_local_hamiltonian, i, lowest_energy, ground_states,
                   output, spin_network, program, returned, configuration_override,
                   anneal, anneal_twin>>

\* spin_network.rs:80-94: the solver's states mapped through spin_ordering
SpinNetworkMapOrdering ==
    /\ pc = "done"
    /\ LET spin_ordering ==
               IF program.spin_ordering = None THEN None
               ELSE Some([k \in 1..Len(program.spin_ordering[1]) |->
                              Arg(program.spin_ordering[1][k])])
       IN  output' = ProjectStates(output, spin_ordering)
    /\ pc' = "projected"
    /\ UNCHANGED <<interactions, external_magnetic_field, initial_state_arg,
                   two_local_hamiltonian, i,
                   lowest_energy, ground_states, spin_network, program, returned,
                   configuration_override, anneal, anneal_twin>>

InitGate ==
    /\ program \in Circuits
    /\ spin_network = SpinNetwork_new
    /\ returned = <<>>
    /\ pc = "build"
    /\ interactions = Idle /\ external_magnetic_field = Idle
    /\ initial_state_arg = None
    /\ two_local_hamiltonian = Idle
    /\ i = Idle /\ lowest_energy = Idle /\ ground_states = Idle /\ output = Idle
    /\ configuration_override = Idle /\ anneal = Idle /\ anneal_twin = Idle

NextGate ==
    \/ AddInputNode
    \/ AddUnaryNode
    \/ AddBinaryNode
    \/ ConnectToThree
    \/ SpinNetworkFindAllGroundStates
    \/ ExactNew
    \/ ExactLoop
    \/ ExactReturn
    \/ SpinNetworkMapOrdering

SpecGate == InitGate /\ [][NextGate]_vars


(***************************************************************************)
(* Truth tables the gates are to realise                                   *)
(***************************************************************************)
UnaryTruth(g, a) == IF g.kind = "COPY" THEN a ELSE ~a

BinaryTruth(g, a, b) ==
    CASE g = "AND" -> a /\ b
      [] g = "OR" -> a \/ b
      [] g = "NAND" -> ~(a /\ b)
      [] g = "NOR" -> ~(a \/ b)
      [] g = "XOR" -> a # b
      [] g = "XNOR" -> a = b

Rows == {output[k][2] : k \in 1..Len(output)}
Energies == {output[k][1] : k \in 1..Len(output)}

\* the output holds each row of the table once, nothing else, at one energy
OutputIsTable(table) ==
    /\ Rows = table
    /\ Len(output) = Cardinality(table)
    /\ Cardinality(Energies) = 1

\* C5: a network of free inputs and one library gate (COPY(0), NOT, AND, OR,
\* NAND, NOR, XOR, XNOR) has, projected onto (inputs..., output), exactly the
\* rows of the gate's truth table as ground states: each valid row once, no
\* invalid row, all at one energy.
C5_SingleGateTruthTable ==
    pc = "projected" =>
        /\ \A g \in UnaryNodes :
              program = SingleUnary(g) =>
                  OutputIsTable({<<a, UnaryTruth(g, a)>> : a \in BOOLEAN})
        /\ \A g \in BinaryNodes :
              program = SingleBinary(g) =>
                  OutputIsTable({<<ab[1], ab[2], BinaryTruth(g, ab[1], ab[2])>> :
                                    ab \in BOOLEAN \X BOOLEAN})

C5_Witness ==
    /\ pc = "projected"
    /\ program = SingleBinary("XOR")
    /\ Len(spin_network.auxiliary_nodes) = 1
    /\ Len(output) = 4

\* C6: when the output of one gate is an input of a second gate, the ground
\* states projected onto the free inputs and the final output are exactly the
\* truth table of the composed function, each row once, all at one energy;
\* for OR(OR(s0, s1), s2) that is all 8 inputs with z = s0 \/ s1 \/ s2.
C6_GatesCompose ==
    pc = "projected" =>
        /\ \A c \in BinaryNodes \X BinaryNodes :
              program = BinaryThenBinary(c[1], c[2]) =>
                  OutputIsTable({<<s[1], s[2], s[3],
                                   BinaryTruth(c[2], BinaryTruth(c[1], s[1], s[2]), s[3])>> :
                                    s \in BOOLEAN \X BOOLEAN \X BOOLEAN})
        /\ \A c \in BinaryNodes \X UnaryNodes :
              program = BinaryThenUnary(c[1], c[2]) =>
                  OutputIsTable({<<s[1], s[2],
                                   UnaryTruth(c[2], BinaryTruth(c[1], s[1], s[2]))>> :
                                    s \in BOOLEAN \X BOOLEAN})
        /\ \A c \in UnaryNodes \X BinaryNodes :
              program = UnaryThenBinary(c[1], c[2]) =>
                  OutputIsTable({<<s[1], s[2],
                                   BinaryTruth(c[2], UnaryTruth(c[1], s[1]), s[2])>> :
                                    s \in BOOLEAN \X BOOLEAN})

C6_Witness ==
    /\ pc = "projected"
    /\ program = BinaryThenBinary("OR", "OR")
    /\ Rows = {<<s[1], s[2], s[3], s[1] \/ s[2] \/ s[3]>> :
                  s \in BOOLEAN \X BOOLEAN \X BOOLEAN}
    /\ Len(output) = 8

\* C7: the ternary OR pattern puts, for each of the 8 input combinations, the
\* assignment with output = in1 \/ in2 \/ in3 in the ground manifold, and no
\* assignment with a wrong output.
C7_TernaryOrGroundManifold ==
    (pc = "projected" /\ program = TernaryOr) =>
        \A s \in BOOLEAN \X BOOLEAN \X BOOLEAN :
            /\ <<s[1], s[2], s[3], s[1] \/ s[2] \/ s[3]>> \in Rows
            /\ <<s[1], s[2], s[3], ~(s[1] \/ s[2] \/ s[3])>> \notin Rows


(***************************************************************************)
(* IndexSet<(ComparableEnergy, CompactState), ahash::RandomState>          *)
(* (solvers.rs:174): the entries in insertion order and a hash table from  *)
(* bucket to entry positions.  The bucket of a value depends on the keys   *)
(* of the RandomState, which differ from one set to the next.              *)
(***************************************************************************)
StateCode(compact) == SumSeq([k \in 1..compact.len |->
                                 IF (k - 1) \in compact.ones THEN 2 ^ (k - 1) ELSE 0])

Hash(key, value) == (key * (StateCode(value[2]) + 1) + (value[1] % 5)) % 5

IndexSet_new(key) == [entries |-> <<>>, table |-> [b \in 0..4 |-> {}], key |-> key]

\* mutant: the lookup probes the bucket of another hasher
IndexSet_contains_other_bucket(set, value) ==
    \E idx \in set.table[Hash(set.key + 1, value)] : set.entries[idx] = value

IndexSet_contains(set, value) ==
    \E idx \in set.table[Hash(set.key, value)] : set.entries[idx] = value

IndexSet_insert(set, value) ==
    IF IndexSet_contains(set, value) THEN set
    ELSE [set EXCEPT !.entries = Append(@, value),
                     !.table[Hash(set.key, value)] = @ \cup {Len(set.entries) + 1}]

IndexSet_clear(set) == [set EXCEPT !.entries = <<>>, !.table = [b \in 0..4 |-> {}]]

IndexSet_len(set) == Len(set.entries)

\* positions bucket by bucket, as a plain hash set would be walked
RECURSIVE BucketOrder(_, _)
BucketOrder(set, b) ==
    IF b > 4 THEN <<>>
    ELSE LET RECURSIVE Ascending(_)
             Ascending(idxs) ==
                 IF idxs = {} THEN <<>>
                 ELSE LET m == CHOOSE x \in idxs : \A y \in idxs : x <= y
                      IN  <<set.entries[m]>> \o Ascending(idxs \ {m})
         IN  Ascending(set.table[b]) \o BucketOrder(set, b + 1)

\* mutant: iteration in the order of the hash table
IndexSet_into_iter_by_bucket(set) == BucketOrder(set, 0)

IndexSet_into_iter(set) == set.entries

(***************************************************************************)
(* simulated_annealing (solvers.rs:96-236).  Temperatures are in 1/1000.   *)
(***************************************************************************)
SimulatedAnnealingConfiguration_default ==
    [initial_temperature |-> 273150, final_temperature |-> 15, sweeps |-> 1000,
     seed |-> 42, trace |-> FALSE]

\* solvers.rs:149-155
OverrideConfiguration(override) ==
    IF override = None THEN SimulatedAnnealingConfiguration_default
    ELSE [SimulatedAnnealingConfiguration_default EXCEPT
              !.initial_temperature = override[1].initial_temperature,
              !.final_temperature = override[1].final_temperature,
              !.sweeps = override[1].sweeps,
              !.seed = override[1].seed]

\* mutant: the loop starts at sweep 0
AnnealNew_sweep_from_zero(ints, field, override, key, overflow_checks) ==
    LET config == OverrideConfiguration(override)
        n == Len(field)
        H == TwoLocalHamiltonian_new(ints, field, Some(AllFalse(n)), overflow_checks)
    IN  IF H.panic THEN Panic
        ELSE LET initial_energy == current_energy(H)
             IN  [panic |-> FALSE,
                  config |-> config,
                  temperature |-> [initial |-> config.initial_temperature, cooled |-> 0],
                  two_local_hamiltonian |-> H,
                  lowest_energy |-> initial_energy,
                  ground_states |->
                      IndexSet_insert(IndexSet_new(key), <<initial_energy, H.spins>>),
                  ground_state_update_time |-> <<0>>,
                  sweep |-> 0,
                  lowest_computed |-> initial_energy,
                  first_observed |-> <<<<H.spins, 0>>>>,
                  draws |-> <<>>,
                  output |-> None]

\* solvers.rs:149-180: the locals before the first sweep.  key stands for the
\* keys of the set's RandomState; lowest_computed and first_observed are
\* history values: the least energy current_energy() has returned in the run,
\* and each configuration the walk has been in with the sweep it entered it first.
AnnealNew(ints, field, override, key, overflow_checks) ==
    LET config == OverrideConfiguration(override)
        n == Len(field)
        H == TwoLocalHamiltonian_new(ints, field, Some(AllFalse(n)), overflow_checks)
    IN  IF H.panic THEN Panic
        ELSE LET initial_energy == current_energy(H)
             IN  [panic |-> FALSE,
                  config |-> config,
                  temperature |-> [initial |-> config.initial_temperature, cooled |-> 0],
                  two_local_hamiltonian |-> H,
                  lowest_energy |-> initial_energy,
                  ground_states |->
                      IndexSet_insert(IndexSet_new(key), <<initial_energy, H.spins>>),
                  ground_state_update_time |-> <<0>>,
                  sweep |-> 1,
                  lowest_computed |-> initial_energy,
                  first_observed |-> <<<<H.spins, 0>>>>,
                  draws |-> <<>>,
                  output |-> None]


\* history: spins entered at this sweep, unless the walk has been there
Observe(seen, spins, sweep) ==
    IF \E k \in 1..Len(seen) : seen[k][1] = spins THEN seen
    ELSE Append(seen, <<spins, sweep>>)

\* mutant: a lower energy does not clear the set
AnnealSweep_no_clear(run, spin_to_flip, beats) ==
    LET H0 == run.two_local_hamiltonian
        current == current_energy(H0)
        H1 == flip_spin(H0, spin_to_flip)
        new_energy == current_energy(H1)
        delta_energy == new_energy - current
        new_ground_state == <<new_energy, H1.spins>>
        cooled == [run EXCEPT !.temperature.cooled = @ + 1, !.sweep = @ + 1,
                              !.draws = @ \o <<"gen_range", "gen">>,
                              !.lowest_computed = Min(@, new_energy),
                              !.first_observed =
                                  IF delta_energy <= EPSILON \/ beats
                                  THEN Observe(@, H1.spins, run.sweep) ELSE @]
    IN  IF delta_energy <= EPSILON \/ beats
        THEN IF new_energy < run.lowest_energy
             THEN [cooled EXCEPT
                      !.two_local_hamiltonian = H1,
                      !.lowest_energy = new_energy,
                      !.ground_states = IndexSet_insert(@, new_ground_state),
                      !.ground_state_update_time = Append(@, run.sweep)]
             ELSE IF Abs(new_energy - run.lowest_energy) <= EPSILON
                     /\ ~IndexSet_contains(run.ground_states, new_ground_state)
             THEN [cooled EXCEPT
                      !.two_local_hamiltonian = H1,
                      !.ground_states = IndexSet_insert(@, <<new_energy, H1.spins>>),
                      !.ground_state_update_time = Append(@, run.sweep)]
             ELSE [cooled EXCEPT !.two_local_hamiltonian = H1]
        ELSE [cooled EXCEPT !.two_local_hamiltonian = flip_spin(H1, spin_to_flip)]

\* mutant: a rejected proposal is left in place
AnnealSweep_no_undo(run, spin_to_flip, beats) ==
    LET H0 == run.two_local_hamiltonian
        current == current_energy(H0)
        H1 == flip_spin(H0, spin_to_flip)
        new_energy == current_energy(H1)
        delta_energy == new_energy - current
        new_ground_state == <<new_energy, H1.spins>>
        cooled == [run EXCEPT !.temperature.cooled = @ + 1, !.sweep = @ + 1,
                              !.draws = @ \o <<"gen_range", "gen">>,
                              !.lowest_computed = Min(@, new_energy),
                              !.first_observed =
                                  IF delta_energy <= EPSILON \/ beats
                                  THEN Observe(@, H1.spins, run.sweep) ELSE @]
    IN  IF delta_energy <= EPSILON \/ beats
        THEN IF new_energy < run.lowest_energy
             THEN [cooled EXCEPT
                      !.two_local_hamiltonian = H1,
                      !.lowest_energy = new_energy,
                      !.ground_states =
                          IF ~run.config.trace
                          THEN IndexSet_insert(IndexSet_clear(@), new_ground_state)
                          ELSE IndexSet_insert(@, new_ground_state),
                      !.ground_state_update_time = Append(@, run.sweep)]
             ELSE IF Abs(new_energy - run.lowest_energy) <= EPSILON
                     /\ ~IndexSet_contains(run.ground_states, new_ground_state)
             THEN [cooled EXCEPT
                      !.two_local_hamiltonian = H1,
                      !.ground_states = IndexSet_insert(@, <<new_energy, H1.spins>>),
                      !.ground_state_update_time = Append(@, run.sweep)]
             ELSE [cooled EXCEPT !.two_local_hamiltonian = H1]
        ELSE [cooled EXCEPT !.two_local_hamiltonian = H1]

\* mutant: the acceptance number is drawn only when the first test fails
AnnealSweep_lazy_draw(run, spin_to_flip, beats) ==
    LET H0 == run.two_local_hamiltonian
        current == current_energy(H0)
        H1 == flip_spin(H0, spin_to_flip)
        new_energy == current_energy(H1)
        delta_energy == new_energy - current
        zero == EPSILON
        new_ground_state == <<new_energy, H1.spins>>
        cooled == [run EXCEPT !.temperature.cooled = @ + 1, !.sweep = @ + 1,
                              !.draws = IF delta_energy <= zero THEN Append(@, "gen_range")
                                        ELSE @ \o <<"gen_range", "gen">>,
                              !.lowest_computed = Min(@, new_energy),
                              !.first_observed =
                                  IF delta_energy <= zero \/ beats
                                  THEN Observe(@, H1.spins, run.sweep) ELSE @]
    IN  IF delta_energy <= zero \/ beats
        THEN IF new_energy < run.lowest_energy
             THEN [cooled EXCEPT
                      !.two_local_hamiltonian = H1,
                      !.lowest_energy = new_energy,
                      !.ground_states =
                          IF ~run.config.trace
                          THEN IndexSet_insert(IndexSet_clear(@), new_ground_state)
                          ELSE IndexSet_insert(@, new_ground_state),
                      !.ground_state_update_time = Append(@, run.sweep)]
             ELSE IF Abs(new_energy - run.lowest_energy) <= zero
                     /\ ~IndexSet_contains(run.ground_states, new_ground_state)
             THEN [cooled EXCEPT
                      !.two_local_hamiltonian = H1,
                      !.ground_states = IndexSet_insert(@, <<new_energy, H1.spins>>),
                      !.ground_state_update_time = Append(@, run.sweep)]
             ELSE [cooled EXCEPT !.two_local_hamiltonian = H1]
        ELSE [cooled EXCEPT !.two_local_hamiltonian = flip_spin(H1, spin_to_flip)]

\* solvers.rs:182-213, one pass of the loop body.  spin_to_flip is the value
\* of rng.gen_range; beats is the outcome of
\* acceptance_probability > not_acceptance_probability, which the second draw
\* of the pass decides.
AnnealSweep(run, spin_to_flip, beats) ==
    LET H0 == run.two_local_hamiltonian
        current == current_energy(H0)
        H1 == flip_spin(H0, spin_to_flip)
        new_energy == current_energy(H1)
        delta_energy == new_energy - current
        zero == EPSILON
        new_ground_state == <<new_energy, H1.spins>>
        cooled == [run EXCEPT !.temperature.cooled = @ + 1, !.sweep = @ + 1,
                              !.draws = @ \o <<"gen_range", "gen">>,
                              !.lowest_computed = Min(@, new_energy),
                              !.first_observed =
                                  IF delta_energy <= zero \/ beats
                                  THEN Observe(@, H1.spins, run.sweep) ELSE @]
    IN  IF delta_energy <= zero \/ beats
        THEN IF new_energy < run.lowest_energy
             THEN [cooled EXCEPT
                      !.two_local_hamiltonian = H1,
                      !.lowest_energy = new_energy,
                      !.ground_states =
                          IF ~run.config.trace
                          THEN IndexSet_insert(IndexSet_clear(@), new_ground_state)
                          ELSE IndexSet_insert(@, new_ground_state),
                      !.ground_state_update_time = Append(@, run.sweep)]
             ELSE IF Abs(new_energy - run.lowest_energy) <= zero
                     /\ ~IndexSet_contains(run.ground_states, new_ground_state)
             THEN [cooled EXCEPT
                      !.two_local_hamiltonian = H1,
                      !.ground_states = IndexSet_insert(@, <<new_energy, H1.spins>>),
                      !.ground_state_update_time = Append(@, run.sweep)]
             ELSE [cooled EXCEPT !.two_local_hamiltonian = H1]
        ELSE [cooled EXCEPT !.two_local_hamiltonian = flip_spin(H1, spin_to_flip)]

\* mutant: the epochs are cut to the first len(ground_states) ones
AnnealReturn_keep_first(run) ==
    LET times == run.ground_state_update_time
        len == IndexSet_len(run.ground_states)
        entries == IndexSet_into_iter(run.ground_states)
    IN  IF Len(times) < len
        THEN Panic
        ELSE LET ground_state_update_time ==
                     IF ~run.config.trace THEN SubSeq(times, 1, len) ELSE times
             IN  [run EXCEPT
                     !.ground_state_update_time = ground_state_update_time,
                     !.output = Some([k \in 1..len |->
                                         <<entries[k][1],
                                           from_compact_state_to_state(entries[k][2]),
                                           ground_state_update_time[k]>>])]

\* solvers.rs:216-235: the epochs cut to the last len(ground_states) ones
\* unless trace, then one triple per entry of the set
AnnealReturn(run) ==
    LET times == run.ground_state_update_time
        len == IndexSet_len(run.ground_states)
        entries == IndexSet_into_iter(run.ground_states)
    IN  IF Len(times) < len
        THEN Panic
        ELSE LET ground_state_update_time ==
                     IF ~run.config.trace
                     THEN SubSeq(times, Len(times) - len + 1, Len(times))
                     ELSE times
             IN  [run EXCEPT
                     !.ground_state_update_time = ground_state_update_time,
                     !.output = Some([k \in 1..len |->
                                         <<entries[k][1],
                                           from_compact_state_to_state(entries[k][2]),
                                           ground_state_update_time[k]>>])]

\* the arguments simulated_annealing is called with
AnnealProblems ==
    {TestCopy, TestAnd, TestOr, TestTotalEnergy}
    \cup {p \in GenericProblems : Len(p.field) < MaxSpins}

Overrides ==
    {None} \cup
    {Some([initial_temperature |-> 1000, final_temperature |-> 1, sweeps |-> sw,
           seed |-> 7, trace |-> tr]) : sw \in 0..MaxSweeps, tr \in BOOLEAN}

AnnealIdle == <<two_local_hamiltonian, i, lowest_energy, ground_states, output,
                spin_network, program, returned>>

\* a call that has not set up its locals yet
NoLocals == [panic |-> FALSE]

\* two calls with the same arguments and the same seed, in two processes
SANew ==
    /\ pc = "sa_new"
    /\ \E overflow_checks \in BOOLEAN :
          LET run == AnnealNew(interactions, external_magnetic_field,
                               configuration_override, 1, overflow_checks)
          IN  /\ pc' = IF run.panic THEN "panic" ELSE "sa_loop"
              /\ anneal' = run
              /\ anneal_twin' = AnnealNew(interactions, external_magnetic_field,
                                          configuration_override, 2, overflow_checks)
    /\ UNCHANGED <<interactions, external_magnetic_field, initial_state_arg,
                   configuration_override,
                   AnnealIdle>>

\* the same seed gives both runs the same draws
SASweep ==
    /\ pc = "sa_loop"
    /\ anneal.sweep < anneal.config.sweeps
    /\ anneal.sweep <= MaxSweeps
    /\ \E spin_to_flip \in 0..(Len(external_magnetic_field) - 1), beats \in BOOLEAN :
          /\ anneal' = AnnealSweep(anneal, spin_to_flip, beats)
          /\ anneal_twin' = AnnealSweep(anneal_twin, spin_to_flip, beats)
    /\ UNCHANGED <<pc, interactions, external_magnetic_field, initial_state_arg,
                   configuration_override,
                   AnnealIdle>>

SAReturn ==
    /\ pc = "sa_loop"
    /\ anneal.sweep >= anneal.config.sweeps
    /\ anneal' = AnnealReturn(anneal)
    /\ anneal_twin' = AnnealReturn(anneal_twin)
    /\ pc' = IF anneal'.panic THEN "panic" ELSE "sa_done"
    /\ UNCHANGED <<interactions, external_magnetic_field, initial_state_arg,
                   configuration_override,
                   AnnealIdle>>

InitSA ==
    /\ \E p \in AnnealProblems :
          /\ interactions = p.interactions
          /\ external_magnetic_field = p.field
          /\ initial_state_arg = None
    /\ configuration_override \in Overrides
    /\ pc = "sa_new"
    /\ anneal = NoLocals /\ anneal_twin = NoLocals
    /\ two_local_hamiltonian = Idle
    /\ i = Idle /\ lowest_energy = Idle /\ ground_states = Idle /\ output = Idle
    /\ spin_network = Idle /\ program = Idle /\ returned = Idle

NextSA == SANew \/ SASweep \/ SAReturn

SpecSA == InitSA /\ [][NextSA]_vars


\* the caller asked for no trace
TraceOff == configuration_override = None \/ ~configuration_override[1].trace

Returned == anneal.output[1]

\* C8 as claimed: with trace = false every returned (E, s, epoch) has E equal
\* to the lowest energy computed in the run (initial state, accepted and
\* rejected proposals), so all returned entries have the same energy.
C8_ReturnedAtLowestComputed ==
    (pc = "sa_done" /\ TraceOff) =>
        \A k \in 1..Len(Returned) : Returned[k][1] = anneal.lowest_computed

\* C8, amended: with trace = false every returned E is at least the lowest
\* energy computed in the run and at most f32::EPSILON above it, and the first
\* returned entry has exactly that energy, which is the final lowest_energy.
C8_ReturnedWithinEpsilonOfLowestComputed ==
    (pc = "sa_done" /\ TraceOff) =>
        /\ Len(Returned) >= 1
        /\ anneal.lowest_energy = anneal.lowest_computed
        /\ Returned[1][1] = anneal.lowest_computed
        /\ \A k \in 1..Len(Returned) :
              /\ anneal.lowest_computed <= Returned[k][1]
              /\ Returned[k][1] <= anneal.lowest_computed + EPSILON

C8_Witness ==
    /\ pc = "sa_done"
    /\ TraceOff
    /\ Len(Returned) >= 2
    /\ \E k \in 1..Len(Returned) : Returned[k][1] > anneal.lowest_computed
    /\ anneal.lowest_computed < IsingEnergy(interactions, external_magnetic_field,
                                            AllFalse(Len(external_magnetic_field)))

\* C9: two runs of simulated_annealing on the same arguments that receive the
\* same PRNG draws return the same sequence of (energy, state, epoch), in the
\* same order, whatever the hash keys of their result sets.
C9_SameDrawsSameOutput ==
    pc = "sa_done" => anneal.output = anneal_twin.output

C9_Witness ==
    /\ pc = "sa_done"
    /\ Len(Returned) >= 2
    /\ BucketOrder(anneal.ground_states, 0) # BucketOrder(anneal_twin.ground_states, 0)

\* C10: when the caller passes trace = true, all five configuration fields
\* are copied from the override, a strictly lower energy does not clear the
\* result set, so the initial state stays its first entry, and the epoch list
\* is not trimmed, so its first epoch stays 0.
C10_TraceCopiedAndStatesRetained ==
    (pc \in {"sa_loop", "sa_done"} /\ configuration_override # None
        /\ configuration_override[1].trace) =>
        LET n == Len(external_magnetic_field)
            initial_energy == IsingEnergy(interactions, external_magnetic_field, AllFalse(n))
        IN  /\ anneal.config = configuration_override[1]
            /\ anneal.ground_states.entries[1] =
                   <<initial_energy, CompactStateWithCapacity(n)>>
            /\ anneal.ground_state_update_time[1] = 0


FirstObserved(state) ==
    LET seen == anneal.first_observed
        k == CHOOSE j \in 1..Len(seen) : from_compact_state_to_state(seen[j][1]) = state
    IN  seen[k][2]

\* two configurations whose energies differ, but by f32::EPSILON at most
HasCloseEnergies(ints, field) ==
    \E s, t \in AllStates(Len(field)) :
        LET d == IsingEnergy(ints, field, s) - IsingEnergy(ints, field, t)
        IN  0 < d /\ d <= EPSILON

EpochListCoversSet ==
    (pc \in {"sa_loop", "sa_done"} /\ TraceOff) =>
        Len(anneal.ground_state_update_time) >= IndexSet_len(anneal.ground_states)

\* C12 as claimed: with trace = false the epoch list is never shorter than the
\* result set; the k-th emitted epoch is the sweep at which the k-th emitted
\* state was first observed; the all-false initial state, when returned, has
\* epoch 0; emitted epochs increase strictly.
C12_EpochIsFirstObservation ==
    /\ EpochListCoversSet
    /\ (pc = "sa_done" /\ TraceOff) =>
          /\ \A k \in 1..Len(Returned) : Returned[k][3] = FirstObserved(Returned[k][2])
          /\ \A k \in 1..Len(Returned) :
                Returned[k][2] = AllFalse(Len(external_magnetic_field)) => Returned[k][3] = 0
          /\ \A k \in 1..(Len(Returned) - 1) : Returned[k][3] < Returned[k + 1][3]

\* C12, amended: with trace = false the epoch list is never shorter than the
\* result set; emitted epochs increase strictly and each is a sweep index of
\* the run, not earlier than the first observation of its state; it is that
\* first observation (0 for the initial state) when no two configurations of
\* the problem have energies that differ by f32::EPSILON or less.
C12_EpochIsInsertionSweep ==
    /\ EpochListCoversSet
    /\ (pc = "sa_done" /\ TraceOff) =>
          /\ \A k \in 1..Len(Returned) :
                /\ FirstObserved(Returned[k][2]) <= Returned[k][3]
                /\ Returned[k][3] < Max(anneal.config.sweeps, 1)
          /\ \A k \in 1..(Len(Returned) - 1) : Returned[k][3] < Returned[k + 1][3]
          /\ ~HasCloseEnergies(interactions, external_magnetic_field) =>
                /\ \A k \in 1..Len(Returned) :
                      Returned[k][3] = FirstObserved(Returned[k][2])
                /\ \A k \in 1..Len(Returned) :
                      Returned[k][2] = AllFalse(Len(external_magnetic_field))
                          => Returned[k][3] = 0

\* the set was cleared on the way and holds several states at the end
C12_Witness ==
    /\ pc = "sa_done"
    /\ TraceOff
    /\ ~HasCloseEnergies(interactions, external_magnetic_field)
    /\ Len(Returned) >= 2
    /\ Returned[1][3] > 0


(***************************************************************************)
(* SpecSolvers: either solver, called on the same problems                 *)
(***************************************************************************)
InitSolvers ==
    \/ InitSA
    \/ /\ InitExact
       /\ [interactions |-> interactions, field |-> external_magnetic_field]
              \in AnnealProblems

NextSolvers == NextExact \/ NextSA

SpecSolvers == InitSolvers /\ [][NextSolvers]_vars

\* each recorded pair holds the Ising energy of the configuration it holds
EnergiesMatchStates(entries) ==
    \A k \in 1..Len(entries) :
        entries[k][1] = IsingEnergy(interactions, external_magnetic_field,
                                    from_compact_state_to_state(entries[k][2]))

\* C13: every (E, s) recorded or emitted by either solver is a snapshot: E is
\* the Ising energy of exactly that s, at every later point of the run, so no
\* later flip changes a recorded state.
C13_ResultsAreSnapshots ==
    /\ pc \in {"exact_loop", "done"} => EnergiesMatchStates(ground_states)
    /\ pc = "done" =>
          \A k \in 1..Len(output) :
              output[k][1] = IsingEnergy(interactions, external_magnetic_field, output[k][2])
    /\ pc \in {"sa_loop", "sa_done"} => EnergiesMatchStates(anneal.ground_states.entries)
    /\ pc = "sa_done" =>
          \A k \in 1..Len(Returned) :
              Returned[k][1] = IsingEnergy(interactions, external_magnetic_field,
                                           Returned[k][2])

\* the exact solver has flipped on after its last capture
C13_Witness ==
    /\ pc = "done"
    /\ Len(output) >= 2
    /\ \A k \in 1..Len(output) :
          output[k][2] # from_compact_state_to_state(two_local_hamiltonian.spins)


(***************************************************************************)
(* SpecConstruct: TwoLocalHamiltonian::new and the two solvers called with *)
(* arguments of every shape: well-formed, with a field of the wrong        *)
(* length, with a pair given twice, with a triple (i, i, J), and with no   *)
(* interaction at all.                                                     *)
(***************************************************************************)
WellFormed ==
    {TestCopy, TestAnd}
    \cup {p \in GenericProblems :
            /\ Len(p.field) < MaxSpins
            /\ p.field[1] = -Half
            /\ \A k \in 1..Len(p.field) : p.field[k] # 0}

ShapeMismatched ==
    UNION {{[p EXCEPT !.field = SubSeq(@, 1, Len(@) - 1)],
            [p EXCEPT !.field = Append(@, Half)],
            [p EXCEPT !.field = <<>>]} : p \in WellFormed}

\* a pair of the list once more, as (i, j) or as (j, i), with another strength
Duplicated ==
    UNION {UNION {{[p EXCEPT !.interactions =
                       Append(@, <<@[k][1], @[k][2], @[k][3] + Unit>>)],
                   [p EXCEPT !.interactions =
                       Append(@, <<@[k][2], @[k][1], @[k][3] + Unit>>)]} :
                  k \in 1..Len(p.interactions)} : p \in WellFormed}

\* a triple (i, i, 1.0) before or after the list
SelfCoupled ==
    UNION {UNION {{[p EXCEPT !.interactions = <<<<i_, i_, Unit>>>> \o @],
                   [p EXCEPT !.interactions = Append(@, <<i_, i_, Unit>>)]} :
                  i_ \in 0..(Len(p.field) - 1)} : p \in WellFormed}

NoInteractions ==
    {[interactions |-> <<>>, field |-> <<>>]}
    \cup {[interactions |-> <<>>, field |-> p.field] : p \in WellFormed}

ConstructionProblems ==
    WellFormed \cup ShapeMismatched \cup Duplicated \cup SelfCoupled \cup NoInteractions

InitConstruct ==
    /\ \E p \in ConstructionProblems :
          /\ interactions = p.interactions
          /\ external_magnetic_field = p.field
          /\ initial_state_arg = None
    /\ \/ pc \in {"ham_new", "exact_new"} /\ configuration_override = Idle
       \/ pc = "sa_new" /\ configuration_override \in Overrides
    /\ anneal = Idle /\ anneal_twin = Idle
    /\ two_local_hamiltonian = Idle
    /\ i = Idle /\ lowest_energy = Idle /\ ground_states = Idle /\ output = Idle
    /\ spin_network = Idle /\ program = Idle /\ returned = Idle

NextConstruct == NextHam \/ NextExact \/ NextSA

SpecConstruct == InitConstruct /\ [][NextConstruct]_vars

NotYetConstructed == pc \in {"ham_new", "exact_new", "sa_new"}

\* C14: a field whose length differs from (largest spin index of the
\* interactions) + 1, longer ones included, makes construction fail, in a
\* direct call and in either solver, before any energy is computed or any
\* result returned.
C14_ShapeMismatchFails ==
    (interactions # <<>> /\ Len(external_magnetic_field) # MaxIndex(interactions) + 1) =>
        \/ NotYetConstructed
        \/ /\ pc = "panic"
           /\ lowest_energy = Idle /\ ground_states = Idle /\ output = Idle

C14_Witness ==
    /\ pc = "panic"
    /\ interactions # <<>>
    /\ Len(external_magnetic_field) > MaxIndex(interactions) + 1


\* the list names an unordered pair of distinct spins more than once
HasDuplicatePair(ints) ==
    \E j, k \in 1..Len(ints) :
        /\ j < k
        /\ ints[j][1] # ints[j][2]
        /\ {ints[j][1], ints[j][2]} = {ints[k][1], ints[k][2]}

HasSelfCoupling(ints) == \E k \in 1..Len(ints) : ints[k][1] = ints[k][2]

\* C15: an interaction list that holds the same unordered pair twice, as
\* (i, j) twice or as (i, j) and (j, i), makes construction fail; no energy or
\* ground state is ever produced from it.
C15_DuplicatePairFails ==
    (HasDuplicatePair(interactions) /\ ~HasSelfCoupling(interactions)
        /\ Len(external_magnetic_field) = MaxIndex(interactions) + 1) =>
        (NotYetConstructed \/ pc = "panic")

\* C16: an interaction list that holds a triple (i, i, J) makes construction
\* fail, for every i in 0..n-1; the coupling is never written into the slot
\* of another pair.
C16_SelfCouplingFails ==
    (HasSelfCoupling(interactions)
        /\ Len(external_magnetic_field) = MaxIndex(interactions) + 1) =>
        (NotYetConstructed \/ pc = "panic")

\* C17: with an empty interaction list and a non-empty field both solvers
\* (and the constructor) accept the problem and do not fail.
C17_EmptyInteractionsAccepted ==
    (interactions = <<>> /\ external_magnetic_field # <<>>) => pc # "panic"


(***************************************************************************)
(* SpecBuild: a SpinNetwork built by any sequence of builder calls that    *)
(* keeps it within MaxNodes spins.  program holds the last call, returned  *)
(* the indices the calls have returned.                                    *)
(***************************************************************************)
FieldChoices == {0, -Half}

BuildIdle == <<pc, interactions, external_magnetic_field, initial_state_arg,
               two_local_hamiltonian, i,
               lowest_energy, ground_states, output, configuration_override, anneal,
               anneal_twin>>

Spins(net) == Len(net.external_magnetic_field)

CallAddInputNode ==
    /\ pc = "free_build"
    /\ Spins(spin_network) < MaxNodes
    /\ \E h \in FieldChoices :
          LET r == add_input_node(spin_network, h)
          IN  /\ spin_network' = r.net
              /\ returned' = Append(returned, r.index)
              /\ program' = [op |-> "add_input_node", magnetic_field_strength |-> h]
    /\ UNCHANGED BuildIdle

CallAddOutputNode ==
    /\ pc = "free_build"
    /\ Spins(spin_network) < MaxNodes
    /\ \E h \in FieldChoices :
          LET r == add_output_node(spin_network, h)
          IN  /\ spin_network' = r.net
              /\ returned' = Append(returned, r.index)
              /\ program' = [op |-> "add_output_node", magnetic_field_strength |-> h]
    /\ UNCHANGED BuildIdle

CallAddAuxiliaryNode ==
    /\ pc = "free_build"
    /\ Spins(spin_network) < MaxNodes
    /\ \E h \in FieldChoices :
          LET r == add_auxiliary_node(spin_network, h)
          IN  /\ spin_network' = r.net
              /\ returned' = Append(returned, r.index)
              /\ program' = [op |-> "add_auxiliary_node", magnetic_field_strength |-> h]
    /\ UNCHANGED BuildIdle

CallAddUnaryNode ==
    /\ pc = "free_build"
    /\ Spins(spin_network) + 1 <= MaxNodes
    /\ \E input \in 0..(Spins(spin_network) - 1), node \in UnaryNodes :
          LET r == add_unary_node(spin_network, input, node)
          IN  /\ spin_network' = r.net
              /\ returned' = Append(returned, r.index)
              /\ program' = [op |-> "add_unary_node", input |-> input, node |-> node]
    /\ UNCHANGED BuildIdle

CallAddBinaryNode ==
    /\ pc = "free_build"
    /\ Spins(spin_network) + 3 <= MaxNodes
    /\ \E left_input, right_input \in 0..(Spins(spin_network) - 1),
          node \in BinaryNodes :
          LET r == add_binary_node(spin_network, left_input, right_input, node)
          IN  /\ Spins(r.net) <= MaxNodes
              /\ spin_network' = r.net
              /\ returned' = Append(returned, r.index)
              /\ program' = [op |-> "add_binary_node", left_input |-> left_input,
                             right_input |-> right_input, node |-> node]
    /\ UNCHANGED BuildIdle

InitBuild ==
    /\ spin_network = SpinNetwork_new
    /\ program = [op |-> "new"]
    /\ returned = <<>>
    /\ pc = "free_build"
    /\ interactions = Idle /\ external_magnetic_field = Idle
    /\ initial_state_arg = None
    /\ two_local_hamiltonian = Idle
    /\ i = Idle /\ lowest_energy = Idle /\ ground_states = Idle /\ output = Idle
    /\ configuration_override = Idle /\ anneal = Idle /\ anneal_twin = Idle

NextBuild ==
    \/ CallAddInputNode
    \/ CallAddOutputNode
    \/ CallAddAuxiliaryNode
    \/ CallAddUnaryNode
    \/ CallAddBinaryNode

SpecBuild == InitBuild /\ [][NextBuild]_vars

NodeAdders == {"add_input_node", "add_output_node", "add_auxiliary_node"}

\* C18: add_input_node(h), add_output_node(h) and add_auxiliary_node(h) each
\* append exactly one spin: the index returned is the number of spins before
\* the call, field[index] = h afterwards, and the earlier field entries and
\* the whole interaction list are unchanged.
C18_NodeAddersAppendOneSpin ==
    [][(NextBuild /\ program'.op \in NodeAdders) =>
          /\ returned'[Len(returned')] = Spins(spin_network)
          /\ Spins(spin_network') = Spins(spin_network) + 1
          /\ At(spin_network'.external_magnetic_field, returned'[Len(returned')])
                = program'.magnetic_field_strength
          /\ \A k \in 0..(Spins(spin_network) - 1) :
                At(spin_network'.external_magnetic_field, k)
                   = At(spin_network.external_magnetic_field, k)
          /\ spin_network'.interactions = spin_network.interactions]_vars

\* a node with a non-zero field has been added after a gate was wired
C18_Witness ==
    /\ pc = "free_build"
    /\ program.op \in NodeAdders
    /\ program.magnetic_field_strength # 0
    /\ spin_network.interactions # <<>>
    /\ returned[Len(returned)] = Spins(spin_network) - 1
    /\ At(spin_network.external_magnetic_field, Spins(spin_network) - 1)
          = program.magnetic_field_strength

C20_EnergiesNonIncreasingInEpochOrder ==
    (pc = "sa_done" /\ TraceOff) =>
        \A j, k \in 1..Len(Returned) :
            Returned[j][3] < Returned[k][3] => Returned[k][1] <= Returned[j][1]

\* C20, amended: with trace = false the entry with the earliest epoch has the
\* least emitted energy and every later entry lies at most f32::EPSILON above
\* it; when no two configurations have energies that differ by a non-zero
\* amount of at most f32::EPSILON, the emitted energies are non-increasing in
\* epoch order.
C20_EarliestEpochIsLowest ==
    (pc = "sa_done" /\ TraceOff) =>
        /\ \A j \in 1..Len(Returned) :
              (\A m \in 1..Len(Returned) : Returned[j][3] <= Returned[m][3]) =>
                 /\ Returned[j][1] = anneal.lowest_energy
                 /\ \A k \in 1..Len(Returned) :
                       /\ Returned[j][1] <= Returned[k][1]
                       /\ Returned[k][1] <= Returned[j][1] + EPSILON
        /\ ~HasCloseEnergies(interactions, external_magnetic_field) =>
              \A j, k \in 1..Len(Returned) :
                  Returned[j][3] < Returned[k][3] => Returned[k][1] <= Returned[j][1]

\* a run without trace that emits a later entry above an earlier one
C20_Witness ==
    /\ pc = "sa_done"
    /\ TraceOff
    /\ \E j, k \in 1..Len(Returned) :
          /\ Returned[j][3] < Returned[k][3]
          /\ Returned[j][1] < Returned[k][1]

(***************************************************************************)
(* SpecInitial: TwoLocalHamiltonian::new called with an initial state of   *)
(* the right length, or with none, and then mutated by flip_spin.          *)
(***************************************************************************)
InitInitial ==
    /\ \E p \in AnnealProblems :
          /\ interactions = p.interactions
          /\ external_magnetic_field = p.field
          /\ initial_state_arg \in {None} \cup {Some(s) : s \in AllStates(Len(p.field))}
    /\ pc = "ham_new"
    /\ two_local_hamiltonian = Idle
    /\ i = Idle /\ lowest_energy = Idle /\ ground_states = Idle /\ output = Idle
    /\ spin_network = Idle /\ program = Idle /\ returned = Idle
    /\ configuration_override = Idle /\ anneal = Idle /\ anneal_twin = Idle

SpecInitial == InitInitial /\ [][NextHam]_vars

CurrentState == from_compact_state_to_state(two_local_hamiltonian.spins)

\* C21: for a Hamiltonian constructed with any supplied initial_state,
\* current_energy() equals the from-scratch Ising sum over the current spins
\* immediately after construction and after any sequence of flip_spin calls.
C21_EnergyIsIsingSumFromAnyInitialState ==
    pc = "ham" =>
        current_energy(two_local_hamiltonian)
            = IsingEnergy(interactions, external_magnetic_field, CurrentState)

\* C22: after construction and after every flip_spin, for every stored
\* interaction (i, j, J) the entry of the linearised array at index k(i, j)
\* equals J * s_i * s_j computed from the current spins.
C22_LinearizedFollowsSpins ==
    pc = "ham" =>
        \A k \in 1..Len(interactions) :
            LET smaller == Min(interactions[k][1], interactions[k][2])
                greater == Max(interactions[k][1], interactions[k][2])
                n == two_local_hamiltonian.spins.len
            IN  At(two_local_hamiltonian.linearized_interactions,
                   map_interaction_to_index(smaller, greater, n))
                   = interactions[k][3]
                       * SpinValue(Contains(two_local_hamiltonian.spins, smaller))
                       * SpinValue(Contains(two_local_hamiltonian.spins, greater))

\* C23: for every i in 1..2^n - 1 the codes g(i-1) and g(i) differ in exactly
\* one bit, at a position < n, so every iteration of the exact solver flips
\* one valid spin; the configuration visited at step i is the one with code
\* g(i), consecutive visited configurations differ in one spin, and the
\* configurations visited are pairwise distinct.
C23_GrayWalkVisitsEachOnce ==
    pc = "exact_loop" =>
        LET n == Len(external_magnetic_field) IN
        /\ from_compact_state_to_state(two_local_hamiltonian.spins)
              = StateOfCode(gray_code(i - 1), n)
        /\ \A k \in 0..(i - 2) : gray_code(k) # gray_code(i - 1)
        /\ gray_code(i - 1) < 2 ^ n
        /\ i < 2 ^ n =>
              LET bit_pos == bit_position_changed(gray_code(i - 1), gray_code(i))
              IN  /\ bit_pos # None
                  /\ bit_pos[1] < n
                  /\ Xor(gray_code(i - 1), gray_code(i)) = 2 ^ bit_pos[1]

\* the walk over three spins has made its last flip
C23_Witness ==
    /\ pc = "exact_loop"
    /\ Len(external_magnetic_field) = 3
    /\ i = 8
    /\ two_local_hamiltonian.spins.ones = {2}

LiveEnergyIsIsing(run) ==
    current_energy(run.two_local_hamiltonian)
        = IsingEnergy(interactions, external_magnetic_field,
                      from_compact_state_to_state(run.two_local_hamiltonian.spins))

C25_TwoDrawsPerSweep ==
    (pc \in {"sa_loop", "sa_done"} /\ ~anneal.panic) =>
        /\ Len(anneal.draws) = 2 * (anneal.sweep - 1)
        /\ \A k \in 1..(anneal.sweep - 1) :
              /\ anneal.draws[2 * k - 1] = "gen_range"
              /\ anneal.draws[2 * k] = "gen"

\* two sweeps made, one accepted because it went downhill, one rejected
C25_Witness ==
    /\ pc = "sa_loop"
    /\ ~anneal.panic
    /\ anneal.sweep = 3
    /\ Len(anneal.draws) = 4
    /\ Len(anneal.first_observed) = 2
    /\ anneal.two_local_hamiltonian.spins.ones = {}

\* the annealer when a call that has entered its loop keeps running: the loop
\* body and the return are taken whenever they are the next step
SweepIndex == IF pc \in {"sa_loop", "sa_done"} THEN anneal.sweep ELSE 0

InitSAFair ==
    /\ InitSA
    /\ Len(external_magnetic_field) < MaxSpins

SpecSAFair ==
    InitSAFair /\ [][NextSA]_vars /\ WF_SweepIndex(SASweep) /\ WF_pc(SAReturn)

ProposalsMade == Len(anneal.draws) \div 2

SweepsAndEpochs ==
    pc = "sa_done" =>
        LET S == anneal.config.sweeps IN
        /\ S >= 1 =>
              /\ ProposalsMade = S - 1
              /\ \A k \in 1..Len(Returned) : Returned[k][3] \in 0..(S - 1)
        /\ S <= 1 =>
              /\ ProposalsMade = 0
              /\ Returned
                    = << <<IsingEnergy(interactions, external_magnetic_field,
                                       AllFalse(Len(external_magnetic_field))),
                           AllFalse(Len(external_magnetic_field)), 0>> >>

C27_BuilderInteractionsWellFormed ==
    pc = "free_build" =>
        LET ints == spin_network.interactions IN
        /\ \A k \in 1..Len(ints) :
              /\ ints[k][1] # ints[k][2]
              /\ ints[k][1] \in 0..(Spins(spin_network) - 1)
              /\ ints[k][2] \in 0..(Spins(spin_network) - 1)
        /\ \A j, k \in 1..Len(ints) :
              j # k => {ints[j][1], ints[j][2]} # {ints[k][1], ints[k][2]}

\* spin 0 is both inputs of a binary gate and the input of a later unary gate
C27_Witness ==
    /\ pc = "free_build"
    /\ program.op = "add_unary_node"
    /\ program.input = 0
    /\ Len(spin_network.interactions) = 6
    /\ \A k \in {1, 2, 6} : spin_network.interactions[k][1] = 0

(***************************************************************************)
(* A network under construction handed to the solvers                      *)
(***************************************************************************)
\* SpinNetwork::find_all_ground_states with spin_ordering None,
\* spin_network.rs:75-79, on the network built so far
BuiltFindAllGroundStates ==
    /\ pc = "free_build"
    /\ Spins(spin_network) <= MaxSpins
    /\ interactions' = spin_network.interactions
    /\ external_magnetic_field' = spin_network.external_magnetic_field
    /\ pc' = "exact_new"
    /\ UNCHANGED <<initial_state_arg, two_local_hamiltonian, i, lowest_energy,
                   ground_states, output, spin_network, program, returned,
                   configuration_override, anneal, anneal_twin>>

\* SpinNetwork::run_simulated_annealing with spin_ordering None,
\* spin_network.rs:96-105, on the network built so far
BuiltRunSimulatedAnnealing ==
    /\ pc = "free_build"
    /\ Spins(spin_network) <= MaxSpins
    /\ interactions' = spin_network.interactions
    /\ external_magnetic_field' = spin_network.external_magnetic_field
    /\ configuration_override' \in Overrides
    /\ pc' = "sa_new"
    /\ UNCHANGED <<initial_state_arg, two_local_hamiltonian, i, lowest_energy,
                   ground_states, output, spin_network, program, returned,
                   anneal, anneal_twin>>

NextBuildSolve ==
    \/ NextBuild
    \/ BuiltFindAllGroundStates
    \/ BuiltRunSimulatedAnnealing
    \/ NextExact
    \/ NextSA

SpecBuildSolve == InitBuild /\ [][NextBuildSolve]_vars

\* C28: a built network with at least one gate has as many field entries as
\* its largest interaction index plus one, and neither solver fails the
\* shape check of TwoLocalHamiltonian::new on it, whatever the order of the
\* builder calls, a free node added after the last gate included.
C28_BuiltNetworksAccepted ==
    Len(spin_network.interactions) > 0 =>
        /\ Spins(spin_network) = MaxIndex(spin_network.interactions) + 1
        /\ pc # "panic"

(***************************************************************************)
(* SpinNetwork::add_n_ary_node                                             *)
(***************************************************************************)
\* a network of k input nodes
RECURSIVE InputsOnly(_)
InputsOnly(k) ==
    IF k = 0 THEN SpinNetwork_new ELSE add_input_node(InputsOnly(k - 1), 0).net

\* inputs: Vec<usize> over the spins of the network
InputVecs(net) ==
    UNION {[1..len -> 0..(Spins(net) - 1)] : len \in 0..2}

\* nary_node: &impl Node
Nodes == {g.kind : g \in UnaryNodes} \cup BinaryNodes

NAryIdle == <<interactions, external_magnetic_field, initial_state_arg,
              two_local_hamiltonian, i, lowest_energy, ground_states, output,
              spin_network, returned, configuration_override, anneal, anneal_twin>>

\* spin_network.rs:72: the call. tail_call: whether the build turns the
\* call in return position into a jump, which keeps one frame on the stack
CallAddNAryNode ==
    /\ pc = "free_build"
    /\ \E inputs \in InputVecs(spin_network), nary_node \in Nodes, tail_call \in BOOLEAN :
          program' = [op |-> "add_n_ary_node", inputs |-> inputs,
                      nary_node |-> nary_node, tail_call |-> tail_call,
                      entered |-> 1, frames |-> 1]
    /\ pc' = "add_n_ary_node"
    /\ UNCHANGED NAryIdle

\* spin_network.rs:73: the body, return self.add_n_ary_node(inputs, nary_node)
AddNAryNodeBody ==
    /\ pc = "add_n_ary_node"
    /\ program.entered < MaxFrames
    /\ program' = [program EXCEPT !.entered = @ + 1,
                                  !.frames = IF program.tail_call THEN @ ELSE @ + 1]
    /\ UNCHANGED <<pc, NAryIdle>>

\* no room for another frame: the process is aborted
StackOverflow ==
    /\ pc = "add_n_ary_node"
    /\ program.frames = MaxFrames
    /\ pc' = "stack_overflow"
    /\ UNCHANGED <<program, NAryIdle>>

InitNAry ==
    /\ spin_network \in {InputsOnly(k) : k \in 1..MaxSpins}
    /\ program = [op |-> "add_input_node", magnetic_field_strength |-> 0]
    /\ returned = <<>>
    /\ pc = "free_build"
    /\ interactions = Idle /\ external_magnetic_field = Idle
    /\ initial_state_arg = None
    /\ two_local_hamiltonian = Idle
    /\ i = Idle /\ lowest_energy = Idle /\ ground_states = Idle /\ output = Idle
    /\ configuration_override = Idle /\ anneal = Idle /\ anneal_twin = Idle

NextNAry == CallAddNAryNode \/ AddNAryNodeBody \/ StackOverflow

SpecNAry ==
    InitNAry /\ [][NextNAry]_vars /\ WF_vars(AddNAryNodeBody) /\ WF_vars(StackOverflow)

\* C29: a call of add_n_ary_node terminates: once entered, control comes
\* back to the caller, with the index of a spin of the network.
C29_AddNAryNodeReturns ==
    (pc = "add_n_ary_node") ~> (pc = "free_build")

(***************************************************************************)
(* The linearised upper triangle of larger Hamiltonians                    *)
(***************************************************************************)
\* every pair a < b < n once, row by row
RECURSIVE CompleteFrom(_, _, _)
CompleteFrom(a, b, n) ==
    IF a >= n - 1 THEN <<>>
    ELSE IF b >= n THEN CompleteFrom(a + 1, a + 2, n)
    ELSE <<<<a, b, Unit>>>> \o CompleteFrom(a, b + 1, n)

\* the complete graph on n spins, and one coupling in either orientation
IndexProblems ==
    UNION {{[interactions |-> CompleteFrom(0, 1, n), field |-> [k \in 1..n |-> 0]]}
           \cup {[interactions |-> <<<<a, n - 1, Unit>>>>, field |-> [k \in 1..n |-> 0]] :
                   a \in 0..(n - 2)}
           \cup {[interactions |-> <<<<n - 1, a, -Half>>>>, field |-> [k \in 1..n |-> 0]] :
                   a \in 0..(n - 2)} :
           n \in 2..MaxDim}

InitIndex ==
    /\ \E p \in IndexProblems :
          /\ interactions = p.interactions
          /\ external_magnetic_field = p.field
    /\ initial_state_arg = None
    /\ pc = "ham_new"
    /\ two_local_hamiltonian = Idle
    /\ i = Idle /\ lowest_energy = Idle /\ ground_states = Idle /\ output = Idle
    /\ spin_network = Idle /\ program = Idle /\ returned = Idle
    /\ configuration_override = Idle /\ anneal = Idle /\ anneal_twin = Idle

SpecIndex == InitIndex /\ [][NextHam]_vars

\* C30: for the n of a constructed Hamiltonian, k(i, j) maps the pairs
\* i < j < n one-to-one onto the slots 0 .. n(n-1)/2 - 1 of the allocated
\* array, and the indices computed for the triples in new and for the
\* pairs (min, max) in flip_spin of any spin are slots of that array.
C30_IndexMapIsBijection ==
    pc # "panic" /\
    (pc = "ham" =>
        LET n == two_local_hamiltonian.spins.len
            slots == 0..(Len(two_local_hamiltonian.linearized_interactions) - 1)
            pairs == {p \in (0..(n - 1)) \X (0..(n - 1)) : p[1] < p[2]}
        IN  /\ n >= 2
            /\ slots = 0..((n * (n - 1)) \div 2 - 1)
            /\ {map_interaction_to_index(p[1], p[2], n) : p \in pairs} = slots
            /\ \A p, q \in pairs :
                  p # q => map_interaction_to_index(p[1], p[2], n)
                             # map_interaction_to_index(q[1], q[2], n)
            /\ \A k \in 1..Len(interactions) :
                  map_interaction_to_index(Min(interactions[k][1], interactions[k][2]),
                                           Max(interactions[k][1], interactions[k][2]),
                                           n) \in slots
            /\ \A spin, j \in 0..(n - 1) :
                  j # spin =>
                      map_interaction_to_index(Min(spin, j), Max(spin, j), n) \in slots)

\* five spins, all ten pairs coupled, after two flips
C30_Witness ==
    /\ pc = "ham"
    /\ two_local_hamiltonian.spins.len = 5
    /\ Len(interactions) = 10
    /\ Len(program) = 2
    /\ two_local_hamiltonian.spins.ones = {1, 4}

====
